---------------------------- MODULE Spec2Model ----------------------------
(***************************************************************************)
(* A model of tcp-sendfile: the Sender (stream/send.rs, stream/utils.rs),  *)
(* the Receiver (stream/receive.rs), block I/O (file/utils.rs) and the     *)
(* framing codec (connection.rs, transport.rs).                            *)
(*                                                                         *)
(* Three specifications share the variables:                               *)
(*   Spec       the transfer: send_file against receive_file, messages as  *)
(*              records on per-connection FIFO channels;                   *)
(*   FrameSpec  read_next_payload over a byte stream, byte by byte;        *)
(*   SplitSpec  split_blocks_into_ranges on drawn inputs.                  *)
(***************************************************************************)
EXTENDS Integers, Sequences, FiniteSets, TLC

(***************************************************************************)
(* Bounds of the model.                                                    *)
(***************************************************************************)
\* block size B of a run, in bytes
BlockSize == 4
\* length of a short last block (0 < ShortLen < BlockSize)
ShortLen == 2
\* the source file has at most this many blocks
MaxBlocks == 3
\* the Receiver's concurrency N ranges over 1..MaxWorkers
MaxWorkers == 2
\* the Sender's connection cap ranges over 1..MaxCap
MaxCap == 2
\* Data replies the network may corrupt in one run
MaxFaults == 1
\* split_blocks_into_ranges is applied to 0..MaxSplitBlocks blocks
MaxSplitBlocks == 11
\* and to 1..MaxSplitWorkers ranges
MaxSplitWorkers == 5
\* bytes of a file fingerprint inside a frame (32 in the program)
HashLen == 2
\* frames written back-to-back on one stream
MaxFrames == 2
\* the two scratch buffer sizes a read is tried with
SmallBuffer == 24
LargeBuffer == 80
\* a read gives 1..MaxChunk bytes, or all the bytes the stream holds
MaxChunk == 5
\* a scripted client writes at most this many messages on its connection
MaxScript == 2
\* messages the first client writes where send_file's shutdown is followed
ShortScript == 1
\* usize::MAX of the model: usize is taken 16 bits wide (64 in the program)
UsizeMax == 65535
\* reads of zero bytes that are counted in one call of read_next_payload
MaxZeroReads == 2
\* calls made on one hand-built ConnectionHandler
MaxCalls == 2
\* block reads and writes made on one open file
MaxFileCalls == 2
\* the largest --concurrency value tried
MaxConcurrencyArg == 17
\* u32::MAX, with u32 scaled to 4 bits: the block counts of the transfers
\* modelled whole stay below it, a Handshake can declare more
U32Max == 15

(***************************************************************************)
(* Program constants.                                                      *)
(***************************************************************************)
MAX_RETRIES == 5
INITIAL_RETRY_DELAY_MS == 500
CURRENT_PROTOCOL_VERSION == 1
\* 4 * 1024 * 1024
MAX_BLOCK_SIZE == 4194304
\* "Ver: " and "Len: " as bytes
VERSION_HEADER_PRIFIX == <<86, 101, 114, 58, 32>>
LENGTH_HEADER_PREFIX == <<76, 101, 110, 58, 32>>
\* "\r\n" as bytes
MESSAGE_DELIMITER == <<13, 10>>

Min(a, b) == IF a < b THEN a ELSE b
Max(a, b) == IF a > b THEN a ELSE b

(***************************************************************************)
(* Library functions, by what they do.                                     *)
(***************************************************************************)
\* crc_fast::checksum(Crc32IsoHdlc, d): a checksum of the byte string d.  A
\* polynomial fold, free of collisions on the byte strings of the model.
RECURSIVE checksum(_)
checksum(d) ==
    IF d = <<>> THEN 1
    ELSE (checksum(SubSeq(d, 1, Len(d) - 1)) * 31 + d[Len(d)] + 1) % 65521

\* get_file_blake3_hash: the fingerprint of a whole file.
RECURSIVE get_file_blake3_hash(_)
get_file_blake3_hash(f) ==
    IF f = <<>> THEN 7
    ELSE (get_file_blake3_hash(SubSeq(f, 1, Len(f) - 1)) * 37 + f[Len(f)] + 3) % 65519

\* length of the run of equal bytes d starts with
RECURSIVE RunLen(_)
RunLen(d) ==
    IF Len(d) <= 1 THEN Len(d)
    ELSE IF d[2] = d[1] THEN 1 + RunLen(Tail(d)) ELSE 1

RECURSIVE RunLengths(_)
RunLengths(d) ==
    IF d = <<>> THEN <<>>
    ELSE LET n == RunLen(d)
         IN  <<n, d[1]>> \o RunLengths(SubSeq(d, n + 1, Len(d)))

\* GzEncoder: a lossless encoding with a fixed framing overhead (one magic
\* byte here), shorter than its input only when the input has long runs.
GzEncoder(d) == <<31>> \o RunLengths(d)

RECURSIVE Expand(_)
Expand(z) ==
    IF z = <<>> THEN <<>>
    ELSE [i \in 1..z[1] |-> z[2]] \o Expand(SubSeq(z, 3, Len(z)))

RECURSIVE WellFormedRuns(_)
WellFormedRuns(z) ==
    \/ z = <<>>
    \/ /\ Len(z) >= 2
       /\ z[1] >= 1
       /\ WellFormedRuns(SubSeq(z, 3, Len(z)))

\* decompress_gzip: Err on anything that is not a gzip stream.
decompress_gzip(z) ==
    IF Len(z) >= 1 /\ z[1] = 31 /\ WellFormedRuns(Tail(z))
    THEN [ok |-> TRUE, data |-> Expand(Tail(z))]
    ELSE [ok |-> FALSE, data |-> <<>>]

(***************************************************************************)
(* Block I/O (file/utils.rs).  A file is its sequence of bytes.            *)
(***************************************************************************)
\* read_file_block: seek to seq * block_size, read until block_size bytes or EOF
read_file_block_untruncated(file, seq, block_size) ==
    LET offset == seq * block_size
    IN  [k \in 1..block_size |->
            IF offset + k <= Len(file) THEN file[offset + k] ELSE 0]

read_file_block(file, seq, block_size) ==
    LET offset == seq * block_size
    IN  IF offset >= Len(file) THEN <<>>
        ELSE SubSeq(file, offset + 1, Min(offset + block_size, Len(file)))

\* a faulty write_file_block: the block is filled up with zeros
write_file_block_padded(file, seq, block_size, data) ==
    LET offset == seq * block_size
        newLen == Max(Len(file), offset + block_size)
    IN  [i \in 1..newLen |->
            IF i > offset /\ i <= offset + Len(data) THEN data[i - offset]
            ELSE IF i > offset /\ i <= offset + block_size THEN 0
            ELSE IF i <= Len(file) THEN file[i]
            ELSE 0]

\* write_file_block: seek to seq * block_size, write all of data (no padding;
\* a write past the end extends the file, a gap reads as zeros)
write_file_block(file, seq, block_size, data) ==
    LET offset == seq * block_size
        newLen == Max(Len(file), offset + Len(data))
    IN  [i \in 1..newLen |->
            IF i > offset /\ i <= offset + Len(data) THEN data[i - offset]
            ELSE IF i <= Len(file) THEN file[i]
            ELSE 0]

\* File::set_len: truncate, or extend with zeros
set_len(file, n) ==
    [i \in 1..n |-> IF i <= Len(file) THEN file[i] ELSE 0]

\* u64::div_ceil
div_ceil(a, b) == (a + b - 1) \div b

\* `as u32` on a u64: the low bits are kept
as_u32(x) == x % (U32Max + 1)

(***************************************************************************)
(* split_blocks_into_ranges (receive.rs): ranges are [start, end) records. *)
(***************************************************************************)
\* a faulty remainder rule: one range too many gets an extra block
extra_block_inclusive(i, remainder) == IF i <= remainder THEN 1 ELSE 0

\* the first `remainder` ranges get one block more
extra_block(i, remainder) == IF i < remainder THEN 1 ELSE 0

RECURSIVE split_loop(_, _, _, _, _)
split_loop(i, start, total_blocks, concurrency, ranges) ==
    IF i >= concurrency THEN ranges
    ELSE LET blocks_per_conn == total_blocks \div concurrency
             remainder == total_blocks % concurrency
             extra == extra_block(i, remainder)
             end == Min(start + blocks_per_conn + extra, total_blocks)
         IN  split_loop(i + 1, end, total_blocks, concurrency,
                        Append(ranges, [start |-> start, end |-> end]))

split_blocks_into_ranges(total_blocks, concurrency) ==
    split_loop(0, 0, total_blocks, concurrency, <<>>)

(***************************************************************************)
(* State.                                                                  *)
(***************************************************************************)
VARIABLES
    \* --- the run ---------------------------------------------------------
    cfg,                 \* [size, n, cap, pre]: source size, Receiver's N,
                         \* Sender's cap, state of the output path
    sfile,               \* the Sender's file
    rfile,               \* the Receiver's output file
    faults,              \* Data replies corrupted in flight so far
    \* --- handshake connection --------------------------------------------
    hsMsg,               \* frames written by the Sender
    hsReply,             \* frames delivered to the Sender
    hsOpen,              \* the peer's end is open
    \* --- Sender (send.rs) ------------------------------------------------
    spc,                 \* position of send_file
    expected_hash,       \* file_hash, the result of initialize_handshake
    listening,           \* the transfer port is bound
    backlog,             \* connections waiting in listener.accept()
    active_connections,
    transfer_complete,
    hpc,                 \* per connection: position of its handler thread
    compression_enabled, \* per connection: "None", "SomeTrue", "SomeFalse"
    \* --- transfer connections, one per worker ----------------------------
    c2s,                 \* frames from the worker to the Sender
    s2c,                 \* frames from the Sender to the worker
    sside,               \* the Sender's end: "none", "backlog", "open", "closed"
    \* --- Receiver (receive.rs) -------------------------------------------
    rpc,                 \* position of receive_file
    state,               \* ReceiverState's immutable fields
    ranges,
    received_blocks,
    bytes_received,
    wpc,                 \* per worker: position of run_connection
    current_seq,
    retry_count,
    retry_delay,         \* per worker: the retry loop's delay, in ms
    slept,               \* per worker: the last thread::sleep of the current
                         \* block's retry loop, in ms (0: none yet)
    tcSent,              \* per worker: "no", "ok", "void" (peer already closed)
    \* --- read_next_payload over a byte stream (FrameSpec) ----------------
    fr,
    \* --- split_blocks_into_ranges on drawn inputs (SplitSpec) ------------
    sp,
    \* --- a hand-built ConnectionHandler and its calls (RequestSpec) ------
    hr,
    \* --- one open file and the block reads and writes on it (FileSpec) ---
    fb,
    \* --- one run of main from the parsed command line (CliSpec) -----------
    cl

pvars == <<cfg, sfile, rfile, faults, hsMsg, hsReply, hsOpen, spc, expected_hash,
           listening, backlog, active_connections, transfer_complete, hpc,
           compression_enabled, c2s, s2c, sside, rpc, state, ranges,
           received_blocks, bytes_received, wpc, current_seq, retry_count, retry_delay, slept, tcSent>>

vars == <<pvars, fr, sp, hr, fb, cl>>

Workers == 1..MaxWorkers

\* byte at 0-based offset o of the source: even blocks are one repeated byte
\* (gzip shrinks a full one), odd blocks alternate (gzip does not)
SourceByte(o) ==
    IF (o \div BlockSize) % 2 = 0 THEN 7 ELSE 1 + (o % 2)

SourceFile(size) == [i \in 1..size |-> SourceByte(i - 1)]

\* sizes of the source: 0..MaxBlocks blocks, the last one full or short
Sizes ==
    {b * BlockSize : b \in 0..MaxBlocks}
        \cup {(b - 1) * BlockSize + ShortLen : b \in 1..MaxBlocks}

\* the output path before the run: absent, the same file, only its first
\* block, or a file of the source's length whose first half of the blocks
\* are the source's and whose other bytes are zero
ExistingFile(pre, src) ==
    IF pre = "same" THEN src
    ELSE IF pre = "partial" THEN SubSeq(src, 1, Min(BlockSize, Len(src)))
    ELSE IF pre = "half"
    THEN LET matching == (div_ceil(Len(src), BlockSize) \div 2) * BlockSize
         IN  [i \in 1..Len(src) |-> IF i <= matching THEN src[i] ELSE 0]
    ELSE <<>>

FrameIdle == fr = [phase |-> "off"]
SplitIdle == sp = [phase |-> "off"]
CallIdle == hr = [phase |-> "off"]
BlockIdle == fb = [phase |-> "off"]
CliIdle == cl = [phase |-> "off"]
Idle == UNCHANGED <<fr, sp, hr, fb, cl>>

Init ==
    /\ cfg \in [size : Sizes, n : 1..MaxWorkers, cap : 1..MaxCap,
                pre : {"fresh", "same", "partial", "half"}]
    /\ sfile = SourceFile(cfg.size)
    /\ rfile = ExistingFile(cfg.pre, sfile)
    /\ faults = 0
    /\ hsMsg = <<>>
    /\ hsReply = <<>>
    /\ hsOpen = TRUE
    /\ spc = "start"
    /\ expected_hash = 0
    /\ listening = FALSE
    /\ backlog = <<>>
    /\ active_connections = 0
    /\ transfer_complete = FALSE
    /\ hpc = [w \in Workers |-> "none"]
    /\ compression_enabled = [w \in Workers |-> "None"]
    /\ c2s = [w \in Workers |-> <<>>]
    /\ s2c = [w \in Workers |-> <<>>]
    /\ sside = [w \in Workers |-> "none"]
    /\ rpc = "listening"
    /\ state = [file_hash |-> 0, block_size |-> 0, total_blocks |-> 0,
                is_existing_file |-> FALSE]
    /\ ranges = <<>>
    /\ received_blocks = <<>>
    /\ bytes_received = 0
    /\ wpc = [w \in Workers |-> "off"]
    /\ current_seq = [w \in Workers |-> 0]
    /\ retry_count = [w \in Workers |-> 0]
    /\ retry_delay = [w \in Workers |-> INITIAL_RETRY_DELAY_MS]
    /\ slept = [w \in Workers |-> 0]
    /\ tcSent = [w \in Workers |-> "no"]
    /\ FrameIdle
    /\ SplitIdle
    /\ CallIdle
    /\ BlockIdle
    /\ CliIdle

(***************************************************************************)
(* Sender: send_file and initialize_handshake.                             *)
(***************************************************************************)
\* initialize_handshake up to the flush: metadata, connect, write Handshake.
\* The concurrency field carries the Sender's cap.
send_handshake ==
    /\ spc = "start"
    /\ hsMsg' = Append(hsMsg, [type |-> "Handshake",
                               file_hash |-> get_file_blake3_hash(sfile),
                               total_size |-> Len(sfile),
                               concurrency |-> cfg.cap,
                               file_name |-> "f",
                               block_size |-> BlockSize])
    /\ spc' = "hs_wait"
    /\ UNCHANGED <<cfg, sfile, rfile, faults, hsReply, hsOpen, expected_hash,
                   listening, backlog, active_connections, transfer_complete, hpc,
                   compression_enabled, c2s, s2c, sside, rpc, state, ranges,
                   received_blocks, bytes_received, wpc, current_seq, retry_count, retry_delay, slept,
                   tcSent>>
    /\ Idle

\* initialize_handshake's read_next_payload returns a frame: send_file takes
\* it as file_hash, binds the transfer port and enters the accept loop.
handshake_reply_received ==
    /\ spc = "hs_wait"
    /\ hsReply # <<>>
    /\ expected_hash' = Head(hsReply).file_hash
    /\ listening' = TRUE
    /\ spc' = "loop_top"
    /\ UNCHANGED <<cfg, sfile, rfile, faults, hsMsg, hsReply, hsOpen, backlog,
                   active_connections, transfer_complete, hpc, compression_enabled,
                   c2s, s2c, sside, rpc, state, ranges, received_blocks,
                   bytes_received, wpc, current_seq, retry_count, retry_delay, slept, tcSent>>
    /\ Idle

\* initialize_handshake's read_next_payload reads 0 bytes: UnexpectedEof, and
\* send_file's expect() panics.
handshake_eof_panic ==
    /\ spc = "hs_wait"
    /\ hsReply = <<>>
    /\ ~hsOpen
    /\ spc' = "panicked"
    /\ UNCHANGED <<cfg, sfile, rfile, faults, hsMsg, hsReply, hsOpen, expected_hash,
                   listening, backlog, active_connections, transfer_complete, hpc,
                   compression_enabled, c2s, s2c, sside, rpc, state, ranges,
                   received_blocks, bytes_received, wpc, current_seq, retry_count, retry_delay, slept,
                   tcSent>>
    /\ Idle

\* Environment.  receive_file writes nothing on the handshake connection; a
\* frame reaches the Sender there only if something else between the two
\* programs answers the Handshake.  It echoes the fingerprint.
peer_acknowledges ==
    /\ rpc # "listening"
    /\ hsOpen
    /\ hsReply = <<>>
    /\ spc = "hs_wait"
    /\ hsReply' = <<[type |-> "Handshake", file_hash |-> Head(hsMsg).file_hash]>>
    /\ UNCHANGED <<cfg, sfile, rfile, faults, hsMsg, hsOpen, spc, expected_hash,
                   listening, backlog, active_connections, transfer_complete, hpc,
                   compression_enabled, c2s, s2c, sside, rpc, state, ranges,
                   received_blocks, bytes_received, wpc, current_seq, retry_count, retry_delay, slept,
                   tcSent>>
    /\ Idle

\* top of the accept loop: transfer_complete.load
accept_loop_check ==
    /\ spc = "loop_top"
    /\ spc' = IF transfer_complete THEN "join" ELSE "accept"
    /\ UNCHANGED <<cfg, sfile, rfile, faults, hsMsg, hsReply, hsOpen, expected_hash,
                   listening, backlog, active_connections, transfer_complete, hpc,
                   compression_enabled, c2s, s2c, sside, rpc, state, ranges,
                   received_blocks, bytes_received, wpc, current_seq, retry_count, retry_delay, slept,
                   tcSent>>
    /\ Idle

\* a faulty cap test: one connection more than the cap is let in
max_connections_exceeded(active, cap) == active > cap

\* the accept loop's test on an accepted connection:
\* active_connections.load() >= cap
max_connections_reached(active, cap) == active >= cap

\* listener.accept() returns a connection below the cap: fetch_add and spawn
accept_and_spawn ==
    /\ spc = "accept"
    /\ backlog # <<>>
    /\ ~max_connections_reached(active_connections, cfg.cap)
    /\ LET w == Head(backlog)
       IN  /\ sside' = [sside EXCEPT ![w] = "open"]
           /\ hpc' = [hpc EXCEPT ![w] = "run"]
    /\ backlog' = Tail(backlog)
    /\ active_connections' = active_connections + 1
    /\ spc' = "loop_top"
    /\ UNCHANGED <<cfg, sfile, rfile, faults, hsMsg, hsReply, hsOpen, expected_hash,
                   listening, transfer_complete, compression_enabled, c2s, s2c, rpc,
                   state, ranges, received_blocks, bytes_received, wpc, current_seq,
                   retry_count, retry_delay, slept, tcSent>>
    /\ Idle

\* listener.accept() returns a connection at the cap: the stream is dropped
accept_and_drop ==
    /\ spc = "accept"
    /\ backlog # <<>>
    /\ max_connections_reached(active_connections, cfg.cap)
    /\ sside' = [sside EXCEPT ![Head(backlog)] = "closed"]
    /\ backlog' = Tail(backlog)
    /\ spc' = "loop_top"
    /\ UNCHANGED <<cfg, sfile, rfile, faults, hsMsg, hsReply, hsOpen, expected_hash,
                   listening, active_connections, transfer_complete, hpc,
                   compression_enabled, c2s, s2c, rpc, state, ranges, received_blocks,
                   bytes_received, wpc, current_seq, retry_count, retry_delay, slept, tcSent>>
    /\ Idle

\* listener.accept() on the non-blocking listener has nothing: log, sleep
accept_would_block ==
    /\ spc = "accept"
    /\ backlog = <<>>
    /\ spc' = "loop_top"
    /\ UNCHANGED <<cfg, sfile, rfile, faults, hsMsg, hsReply, hsOpen, expected_hash,
                   listening, backlog, active_connections, transfer_complete, hpc,
                   compression_enabled, c2s, s2c, sside, rpc, state, ranges,
                   received_blocks, bytes_received, wpc, current_seq, retry_count, retry_delay, slept,
                   tcSent>>
    /\ Idle

\* thread::scope joins every handler thread, then send_file returns Ok and
\* the listener is dropped with whatever still waits in it
send_file_return ==
    /\ spc = "join"
    /\ \A w \in Workers : hpc[w] \in {"none", "done"}
    /\ spc' = "returned"
    /\ listening' = FALSE
    /\ sside' = [w \in Workers |-> IF sside[w] = "backlog" THEN "closed" ELSE sside[w]]
    /\ backlog' = <<>>
    /\ UNCHANGED <<cfg, sfile, rfile, faults, hsMsg, hsReply, hsOpen, expected_hash,
                   active_connections, transfer_complete, hpc, compression_enabled,
                   c2s, s2c, rpc, state, ranges, received_blocks, bytes_received, wpc,
                   current_seq, retry_count, retry_delay, slept, tcSent>>
    /\ Idle

(***************************************************************************)
(* Sender: handle_connection and ConnectionHandler, one per connection.    *)
(***************************************************************************)
\* the worker's end of connection w is gone (its stream was dropped)
worker_closed(w) == wpc[w] \in {"done", "failed"}

\* a faulty fingerprint test: every message is taken as this transfer's
hash_ignored(file_hash, expected) == TRUE

\* the handlers' fingerprint test: file_hash == expected_hash
hash_matches(file_hash, expected) == file_hash = expected

\* a faulty checksum_val: taken over the raw block whatever is sent
checksum_val_raw(final_data, data) == checksum(data)

\* handle_data_request's checksum_val: taken over final_data, the bytes sent
checksum_val(final_data, data) == checksum(final_data)

\* a faulty valid: every block is reported valid
valid_always(computed_checksum, receiver_checksum) == TRUE

\* handle_verify_block's valid: computed_checksum == receiver_checksum
valid(computed_checksum, receiver_checksum) == computed_checksum = receiver_checksum

\* a faulty closure: the flag is stored whatever handle_connection returned
success_ignored(success) == TRUE

\* a faulty epilogue: the flag is never stored
success_dropped(success) == FALSE

\* the spawned closure's test before transfer_complete.store: if success
success_stores(success) == success

\* what the I/O inside one call of a handler method does: the read of the
\* block, the gzip encoder, the write to the writer
NoFault == [read_ok |-> TRUE, encode_ok |-> TRUE, write_ok |-> TRUE]

\* a faulty test: compression is attempted whatever was decided
attempt_compression_always(enabled) == TRUE

\* handle_data_request's match on self.compression_enabled:
\* Some(true) => true, Some(false) => false, None => true (the probe)
attempt_compression(enabled) == enabled \in {"None", "SomeTrue"}

\* a faulty probe: the decision follows every block
probe_every_block(enabled, is_smaller) ==
    IF is_smaller THEN "SomeTrue" ELSE "SomeFalse"

\* the sticky flag after a block was looked at:
\* if self.compression_enabled.is_none() { ... = Some(is_smaller) }, and
\* Some(false) on that condition when the encoder failed
probe(enabled, is_smaller) ==
    IF enabled = "None"
    THEN (IF is_smaller THEN "SomeTrue" ELSE "SomeFalse")
    ELSE enabled

\* handle_data_request, the compression decision: what the reply carries and
\* what the handler remembers, given the remembered decision, the raw block
\* and whether the encoder succeeds
data_reply(enabled, data, compression_success) ==
    LET compressed_buffer == GzEncoder(data)
        is_smaller == compression_success /\ Len(compressed_buffer) < Len(data)
        compressed_flag == attempt_compression(enabled) /\ is_smaller
    IN  [enabled |-> IF attempt_compression(enabled)
                     THEN probe(enabled, is_smaller) ELSE enabled,
         compressed |-> compressed_flag,
         data |-> IF compressed_flag THEN compressed_buffer ELSE data]

\* the handler leaves variables of the Receiver and of send_file alone
HandlerFrame ==
    UNCHANGED <<cfg, sfile, rfile, faults, hsMsg, hsReply, hsOpen, spc,
                expected_hash, listening, backlog, active_connections,
                transfer_complete, rpc, state, ranges, received_blocks,
                bytes_received, wpc, current_seq, retry_count, retry_delay, slept, tcSent>>

\* handle_connection returns v: its stream is dropped
handler_returns(w, v) ==
    /\ hpc' = [hpc EXCEPT ![w] = IF v THEN "ret_true" ELSE "ret_false"]
    /\ sside' = [sside EXCEPT ![w] = "closed"]

\* the values of Result<bool, SendFileError>
Ok(value) == [kind |-> "Ok", value |-> value]

\* SenderMessageV1::Error(SenderErrorV1 { code: 500, message })
SenderError == [type |-> "Error", code |-> 500, message |-> "e"]

\* ConnectionHandler::handle_data_request on a handler with this fingerprint,
\* compression decision and file, with this I/O: the result it returns, the
\* frames it hands to writer.write_all, those that get written and the
\* decision it leaves.  Every return of the function is an Ok.
handle_data_request_result(req, expected, enabled, file, io) ==
    LET data == read_file_block(file, req.seq, BlockSize)
        reply == data_reply(enabled, data, io.encode_ok)
        msg == [type |-> "Data",
                seq |-> req.seq,
                checksum |-> checksum_val(reply.data, data),
                file_hash |-> expected,
                compressed |-> reply.compressed,
                data |-> reply.data]
    IN  IF ~hash_matches(req.file_hash, expected)
        THEN [result |-> Ok(FALSE), attempted |-> <<>>, written |-> <<>>,
              enabled |-> enabled]
        ELSE IF ~io.read_ok
        THEN [result |-> Ok(FALSE),
              attempted |-> <<SenderError>>,
              written |-> IF io.write_ok THEN <<SenderError>> ELSE <<>>,
              enabled |-> enabled]
        ELSE IF ~io.write_ok
        THEN [result |-> Ok(FALSE), attempted |-> <<msg>>, written |-> <<>>,
              enabled |-> reply.enabled]
        ELSE [result |-> Ok(TRUE), attempted |-> <<msg>>, written |-> <<msg>>,
              enabled |-> reply.enabled]

\* a Request is read: handle_data_request; handle_connection goes on after
\* Ok(true) and returns false after anything else
handle_data_request(w) ==
    /\ hpc[w] = "run"
    /\ c2s[w] # <<>>
    /\ Head(c2s[w]).type = "Request"
    /\ c2s' = [c2s EXCEPT ![w] = Tail(@)]
    /\ LET call == handle_data_request_result(Head(c2s[w]), expected_hash,
                                               compression_enabled[w], sfile,
                                               NoFault)
       IN  /\ compression_enabled' =
                  [compression_enabled EXCEPT ![w] = call.enabled]
           /\ s2c' = [s2c EXCEPT ![w] = @ \o call.written]
           /\ IF call.result = Ok(TRUE)
              THEN UNCHANGED <<hpc, sside>>
              ELSE handler_returns(w, FALSE)
    /\ HandlerFrame
    /\ Idle

\* ConnectionHandler::handle_verify_block on a handler with this fingerprint
\* and file, with this I/O: the result it returns and the frames it writes.
\* A failed read is answered, if the write works, by valid: false.
handle_verify_block_result(verify, expected, file, io) ==
    LET data == read_file_block(file, verify.seq, BlockSize)
        computed_checksum == checksum(data)
        response(v) == [type |-> "VerifyResponse", file_hash |-> expected,
                        seq |-> verify.seq, valid |-> v]
        msg == response(valid(computed_checksum, verify.checksum))
    IN  IF ~hash_matches(verify.file_hash, expected)
        THEN [result |-> Ok(FALSE), attempted |-> <<>>, written |-> <<>>]
        ELSE IF ~io.read_ok
        THEN [result |-> Ok(FALSE),
              attempted |-> <<response(FALSE)>>,
              written |-> IF io.write_ok THEN <<response(FALSE)>> ELSE <<>>]
        ELSE IF ~io.write_ok
        THEN [result |-> Ok(FALSE), attempted |-> <<msg>>, written |-> <<>>]
        ELSE [result |-> Ok(TRUE), attempted |-> <<msg>>, written |-> <<msg>>]

\* a VerifyBlock is read: handle_verify_block; handle_connection goes on
\* after Ok(true) and returns false after anything else
handle_verify_block(w) ==
    /\ hpc[w] = "run"
    /\ c2s[w] # <<>>
    /\ Head(c2s[w]).type = "VerifyBlock"
    /\ c2s' = [c2s EXCEPT ![w] = Tail(@)]
    /\ LET call == handle_verify_block_result(Head(c2s[w]), expected_hash,
                                               sfile, NoFault)
       IN  /\ s2c' = [s2c EXCEPT ![w] = @ \o call.written]
           /\ IF call.result = Ok(TRUE)
              THEN UNCHANGED <<hpc, sside>>
              ELSE handler_returns(w, FALSE)
    /\ UNCHANGED compression_enabled
    /\ HandlerFrame
    /\ Idle

\* a TransferComplete is read: handle_connection returns
\* handle_transfer_complete's verdict
handle_transfer_complete(w) ==
    /\ hpc[w] = "run"
    /\ c2s[w] # <<>>
    /\ Head(c2s[w]).type = "TransferComplete"
    /\ c2s' = [c2s EXCEPT ![w] = Tail(@)]
    /\ handler_returns(w, hash_matches(Head(c2s[w]).file_hash, expected_hash))
    /\ UNCHANGED <<s2c, compression_enabled>>
    /\ HandlerFrame
    /\ Idle

\* a Progress is read: handle_progress; the loop goes on if the fingerprint
\* is this transfer's, nothing is written
handle_progress(w) ==
    /\ hpc[w] = "run"
    /\ c2s[w] # <<>>
    /\ Head(c2s[w]).type = "Progress"
    /\ c2s' = [c2s EXCEPT ![w] = Tail(@)]
    /\ IF hash_matches(Head(c2s[w]).file_hash, expected_hash)
       THEN UNCHANGED <<hpc, sside>>
       ELSE handler_returns(w, FALSE)
    /\ UNCHANGED <<s2c, compression_enabled>>
    /\ HandlerFrame
    /\ Idle

\* an Error is read: handle_error logs it, handle_connection returns false
handle_error(w) ==
    /\ hpc[w] = "run"
    /\ c2s[w] # <<>>
    /\ Head(c2s[w]).type = "Error"
    /\ c2s' = [c2s EXCEPT ![w] = Tail(@)]
    /\ handler_returns(w, FALSE)
    /\ UNCHANGED <<s2c, compression_enabled>>
    /\ HandlerFrame
    /\ Idle

\* read_next_payload fails (the worker closed its end): return false
handle_stream_closed(w) ==
    /\ hpc[w] = "run"
    /\ c2s[w] = <<>>
    /\ worker_closed(w)
    /\ handler_returns(w, FALSE)
    /\ UNCHANGED <<c2s, s2c, compression_enabled>>
    /\ HandlerFrame
    /\ Idle

\* the spawned closure after handle_connection: fetch_sub
thread_release(w) ==
    /\ hpc[w] \in {"ret_true", "ret_false"}
    /\ active_connections' = active_connections - 1
    /\ hpc' = [hpc EXCEPT ![w] =
                  IF success_stores(hpc[w] = "ret_true") THEN "signal" ELSE "done"]
    /\ UNCHANGED <<cfg, sfile, rfile, faults, hsMsg, hsReply, hsOpen, spc,
                   expected_hash, listening, backlog, transfer_complete,
                   compression_enabled, c2s, s2c, sside, rpc, state, ranges,
                   received_blocks, bytes_received, wpc, current_seq, retry_count, retry_delay, slept,
                   tcSent>>
    /\ Idle

\* the spawned closure, on success: transfer_complete.store(true)
thread_signal(w) ==
    /\ hpc[w] = "signal"
    /\ transfer_complete' = TRUE
    /\ hpc' = [hpc EXCEPT ![w] = "done"]
    /\ UNCHANGED <<cfg, sfile, rfile, faults, hsMsg, hsReply, hsOpen, spc,
                   expected_hash, listening, backlog, active_connections,
                   compression_enabled, c2s, s2c, sside, rpc, state, ranges,
                   received_blocks, bytes_received, wpc, current_seq, retry_count, retry_delay, slept,
                   tcSent>>
    /\ Idle

\* the network corrupts the payload of a Data frame in flight
corrupt_data(w) ==
    /\ faults < MaxFaults
    /\ s2c[w] # <<>>
    /\ Head(s2c[w]).type = "Data"
    /\ Head(s2c[w]).data # <<>>
    /\ s2c' = [s2c EXCEPT ![w][1].data[1] = (@ + 1) % 256]
    /\ faults' = faults + 1
    /\ UNCHANGED <<cfg, sfile, rfile, hsMsg, hsReply, hsOpen, spc, expected_hash,
                   listening, backlog, active_connections, transfer_complete, hpc,
                   compression_enabled, c2s, sside, rpc, state, ranges,
                   received_blocks, bytes_received, wpc, current_seq, retry_count, retry_delay, slept,
                   tcSent>>
    /\ Idle

(***************************************************************************)
(* Receiver: receive_file.                                                 *)
(***************************************************************************)
\* the worker leaves the Sender's variables and receive_file's alone
WorkerFrame ==
    UNCHANGED <<cfg, sfile, faults, hsMsg, hsReply, hsOpen, spc, expected_hash,
                listening, active_connections, transfer_complete, hpc,
                compression_enabled, rpc, state, ranges>>

\* a faulty gate: the wrong first message is reported as an I/O error
first_message_io(message) ==
    IF message.type = "Handshake" THEN "workers" ELSE "Io"

\* receive_file's match on the first message: go on with a Handshake, return
\* SendFileError::UnexpectedMessage with anything else
first_message(message) ==
    IF message.type = "Handshake" THEN "workers" ELSE "UnexpectedMessage"

\* accept the handshake connection, read the Handshake, open and size the
\* output file, create the flags, split the blocks, spawn the workers
receive_handshake ==
    /\ rpc = "listening"
    /\ hsMsg # <<>>
    /\ LET handshake == Head(hsMsg)
           total_blocks == as_u32(div_ceil(handshake.total_size, handshake.block_size))
       IN  IF first_message(handshake) # "workers"
           THEN /\ rpc' = first_message(handshake)
                /\ hsOpen' = FALSE
                /\ UNCHANGED <<rfile, state, ranges, received_blocks, wpc>>
           ELSE /\ rpc' = "workers"
                /\ rfile' = set_len(rfile, handshake.total_size)
                /\ state' = [file_hash |-> handshake.file_hash,
                             block_size |-> handshake.block_size,
                             total_blocks |-> total_blocks,
                             is_existing_file |-> cfg.pre # "fresh"]
                /\ received_blocks' = [i \in 0..(total_blocks - 1) |-> FALSE]
                /\ ranges' = split_blocks_into_ranges(total_blocks, cfg.n)
                /\ wpc' = [w \in Workers |-> IF w <= cfg.n THEN "connect" ELSE "off"]
                /\ UNCHANGED hsOpen
    /\ UNCHANGED <<cfg, sfile, faults, hsMsg, hsReply, spc, expected_hash, listening,
                   backlog, active_connections, transfer_complete, hpc,
                   compression_enabled, c2s, s2c, sside, bytes_received, current_seq,
                   retry_count, retry_delay, slept, tcSent>>
    /\ Idle

\* thread::scope has joined every worker; their errors were logged; the
\* handshake stream is dropped and receive_file returns Ok(())
receive_file_return ==
    /\ rpc = "workers"
    /\ \A w \in 1..cfg.n : wpc[w] \in {"done", "failed"}
    /\ rpc' = "returned"
    /\ hsOpen' = FALSE
    /\ UNCHANGED <<cfg, sfile, rfile, faults, hsMsg, hsReply, spc, expected_hash,
                   listening, backlog, active_connections, transfer_complete, hpc,
                   compression_enabled, c2s, s2c, sside, state, ranges,
                   received_blocks, bytes_received, wpc, current_seq, retry_count, retry_delay, slept,
                   tcSent>>
    /\ Idle

(***************************************************************************)
(* Receiver: run_connection, one per worker.                               *)
(***************************************************************************)
\* TcpStream::connect succeeds: the connection waits in the Sender's listener
worker_connect(w) ==
    /\ wpc[w] = "connect"
    /\ listening
    /\ sside' = [sside EXCEPT ![w] = "backlog"]
    /\ backlog' = Append(backlog, w)
    /\ current_seq' = [current_seq EXCEPT ![w] = ranges[w].start]
    /\ wpc' = [wpc EXCEPT ![w] = IF state.is_existing_file THEN "verify" ELSE "download"]
    /\ UNCHANGED <<rfile, c2s, s2c, received_blocks, bytes_received, retry_count, retry_delay, slept, tcSent>>
    /\ WorkerFrame
    /\ Idle

\* TcpStream::connect is refused (nothing listens on the transfer port):
\* run_connection returns the error
worker_connect_refused(w) ==
    /\ wpc[w] = "connect"
    /\ ~listening
    /\ wpc' = [wpc EXCEPT ![w] = "failed"]
    /\ UNCHANGED <<rfile, backlog, c2s, s2c, sside, received_blocks, bytes_received,
                   current_seq, retry_count, retry_delay, slept, tcSent>>
    /\ WorkerFrame
    /\ Idle

\* a faulty store: the vector is rebuilt with only this flag set
store_flag_only(flags, seq) == [i \in DOMAIN flags |-> i = seq]

\* store(true) on one flag
store_flag(flags, seq) == [flags EXCEPT ![seq] = TRUE]

\* first index in [from, end) whose flag is false, or end
RECURSIVE skip_received(_, _, _)
skip_received(flags, from, end) ==
    IF from < end /\ flags[from] THEN skip_received(flags, from + 1, end) ELSE from

\* download_missing_blocks, outer loop: skip the marked blocks, then either
\* leave the loop or start the retry loop of the next block
download_next(w) ==
    /\ wpc[w] = "download"
    /\ LET seq == skip_received(received_blocks, current_seq[w], ranges[w].end)
       IN  /\ current_seq' = [current_seq EXCEPT ![w] = seq]
           /\ wpc' = [wpc EXCEPT ![w] = IF seq >= ranges[w].end THEN "check" ELSE "request"]
    /\ retry_count' = [retry_count EXCEPT ![w] = 0]
    /\ retry_delay' = [retry_delay EXCEPT ![w] = INITIAL_RETRY_DELAY_MS]
    /\ slept' = [slept EXCEPT ![w] = 0]
    /\ UNCHANGED <<rfile, backlog, c2s, s2c, sside, received_blocks, bytes_received, tcSent>>
    /\ WorkerFrame
    /\ Idle

\* a faulty budget test: one attempt too many
retries_exhausted_late(count) == count > MAX_RETRIES

\* the retry budget test: retry_count >= MAX_RETRIES
retries_exhausted(count) == count >= MAX_RETRIES

\* download_missing_blocks after download_block_with_retry returned
\* Ok(false): count the attempt; give up at MAX_RETRIES, else double the
\* delay and sleep it
attempt_failed(w) ==
    /\ retry_count' = [retry_count EXCEPT ![w] = @ + 1]
    /\ IF retries_exhausted(retry_count[w] + 1)
       THEN /\ wpc' = [wpc EXCEPT ![w] = "failed"]
            /\ UNCHANGED <<retry_delay, slept>>
       ELSE /\ wpc' = [wpc EXCEPT ![w] = "request"]
            /\ retry_delay' = [retry_delay EXCEPT ![w] = @ * 2]
            /\ slept' = [slept EXCEPT ![w] = retry_delay[w] * 2]

\* download_block_with_retry, first half: send the Request.  On a connection
\* the Sender has closed the send or the read that follows fails: Ok(false).
download_request(w) ==
    /\ wpc[w] = "request"
    /\ IF sside[w] = "closed"
       THEN /\ attempt_failed(w)
            /\ UNCHANGED c2s
       ELSE /\ c2s' = [c2s EXCEPT ![w] =
                   Append(@, [type |-> "Request",
                              file_hash |-> state.file_hash,
                              seq |-> current_seq[w]])]
            /\ wpc' = [wpc EXCEPT ![w] = "await_data"]
            /\ UNCHANGED <<retry_count, retry_delay, slept>>
    /\ UNCHANGED <<rfile, backlog, s2c, sside, received_blocks, bytes_received,
                   current_seq, tcSent>>
    /\ WorkerFrame
    /\ Idle

\* a faulty integrity check: the checksum is not looked at
checksum_skipped(data) == TRUE

\* process_data_block's integrity check
checksum_matches(data) == checksum(data.data) = data.checksum

\* process_data_block: verify, decompress, write; its verdict, the file and
\* the number of bytes counted
process_data_block(file, seq, data) ==
    LET unpacked == IF data.compressed THEN decompress_gzip(data.data)
                    ELSE [ok |-> TRUE, data |-> data.data]
    IN  IF checksum_matches(data) /\ unpacked.ok
        THEN [ok |-> TRUE,
              file |-> write_file_block(file, seq, state.block_size, unpacked.data),
              len |-> Len(unpacked.data)]
        ELSE [ok |-> FALSE, file |-> file, len |-> 0]

\* download_block_with_retry, second half: the reply arrives
download_reply(w) ==
    /\ wpc[w] = "await_data"
    /\ s2c[w] # <<>>
    /\ s2c' = [s2c EXCEPT ![w] = Tail(@)]
    /\ LET msg == Head(s2c[w])
           done == process_data_block(rfile, current_seq[w], msg)
       IN  IF msg.type = "Data" /\ done.ok
           THEN /\ rfile' = done.file
                /\ bytes_received' = bytes_received + done.len
                /\ wpc' = [wpc EXCEPT ![w] = "mark"]
                /\ UNCHANGED <<retry_count, retry_delay, slept>>
           ELSE /\ attempt_failed(w)
                /\ UNCHANGED <<rfile, bytes_received>>
    /\ UNCHANGED <<backlog, c2s, sside, received_blocks, current_seq, tcSent>>
    /\ WorkerFrame
    /\ Idle

\* download_block_with_retry, second half: the read fails, the Sender
\* closed the connection without a reply
download_read_failed(w) ==
    /\ wpc[w] = "await_data"
    /\ s2c[w] = <<>>
    /\ sside[w] = "closed"
    /\ attempt_failed(w)
    /\ UNCHANGED <<rfile, backlog, c2s, s2c, sside, received_blocks, bytes_received,
                   current_seq, tcSent>>
    /\ WorkerFrame
    /\ Idle

\* download_missing_blocks on success: store(true), next block
download_mark(w) ==
    /\ wpc[w] = "mark"
    /\ received_blocks' = store_flag(received_blocks, current_seq[w])
    /\ current_seq' = [current_seq EXCEPT ![w] = @ + 1]
    /\ wpc' = [wpc EXCEPT ![w] = "download"]
    /\ UNCHANGED <<rfile, backlog, c2s, s2c, sside, bytes_received, retry_count, retry_delay, slept, tcSent>>
    /\ WorkerFrame
    /\ Idle

\* verify_existing_blocks, loop head: first index in [from, end) that is
\* neither marked nor empty on disk, or end
RECURSIVE skip_verified(_, _, _, _)
skip_verified(flags, file, from, end) ==
    IF from < end
       /\ (flags[from] \/ read_file_block(file, from, state.block_size) = <<>>)
    THEN skip_verified(flags, file, from + 1, end)
    ELSE from

\* verify_existing_blocks: next block to verify, send its VerifyBlock.  On a
\* connection the Sender has closed the send or the read that follows fails
\* and the error leaves run_connection.
verify_next(w) ==
    /\ wpc[w] = "verify"
    /\ LET seq == skip_verified(received_blocks, rfile, current_seq[w], ranges[w].end)
           block_data == read_file_block(rfile, seq, state.block_size)
       IN  /\ current_seq' = [current_seq EXCEPT ![w] = seq]
           /\ IF seq >= ranges[w].end
              THEN /\ wpc' = [wpc EXCEPT ![w] = "check"]
                   /\ UNCHANGED c2s
              ELSE IF sside[w] = "closed"
              THEN /\ wpc' = [wpc EXCEPT ![w] = "failed"]
                   /\ UNCHANGED c2s
              ELSE /\ wpc' = [wpc EXCEPT ![w] = "await_verify"]
                   /\ c2s' = [c2s EXCEPT ![w] =
                          Append(@, [type |-> "VerifyBlock",
                                     file_hash |-> state.file_hash,
                                     seq |-> seq,
                                     checksum |-> checksum(block_data)])]
    /\ UNCHANGED <<rfile, backlog, s2c, sside, received_blocks, bytes_received,
                   retry_count, retry_delay, slept, tcSent>>
    /\ WorkerFrame
    /\ Idle

\* a faulty read_verify_response: the reply's seq is not compared
read_verify_response_any_seq(msg, seq) ==
    msg.type = "VerifyResponse" /\ msg.valid

\* read_verify_response: the verdict carried by the reply for block seq
read_verify_response(msg, seq) ==
    msg.type = "VerifyResponse" /\ msg.seq = seq /\ msg.valid

\* verify_existing_blocks: the reply arrives; a valid block is marked and
\* counted, an invalid one is left as it is
verify_reply(w) ==
    /\ wpc[w] = "await_verify"
    /\ s2c[w] # <<>>
    /\ s2c' = [s2c EXCEPT ![w] = Tail(@)]
    /\ LET seq == current_seq[w]
           block_data == read_file_block(rfile, seq, state.block_size)
       IN  IF read_verify_response(Head(s2c[w]), seq)
           THEN /\ received_blocks' = store_flag(received_blocks, seq)
                /\ bytes_received' = bytes_received + Len(block_data)
           ELSE UNCHANGED <<received_blocks, bytes_received>>
    /\ current_seq' = [current_seq EXCEPT ![w] = @ + 1]
    /\ wpc' = [wpc EXCEPT ![w] = "verify"]
    /\ UNCHANGED <<rfile, backlog, c2s, sside, retry_count, retry_delay, slept, tcSent>>
    /\ WorkerFrame
    /\ Idle

\* read_verify_response: the read fails, the error leaves run_connection
verify_read_failed(w) ==
    /\ wpc[w] = "await_verify"
    /\ s2c[w] = <<>>
    /\ sside[w] = "closed"
    /\ wpc' = [wpc EXCEPT ![w] = "failed"]
    /\ UNCHANGED <<rfile, backlog, c2s, s2c, sside, received_blocks, bytes_received,
                   current_seq, retry_count, retry_delay, slept, tcSent>>
    /\ WorkerFrame
    /\ Idle

\* a faulty completion test: one marked block is enough
is_transfer_complete_some(flags) == \E i \in DOMAIN flags : flags[i]

\* a faulty completion test: an empty vector is not complete
is_transfer_complete_nonempty(flags) ==
    flags # <<>> /\ \A i \in DOMAIN flags : flags[i]

\* is_transfer_complete: every flag is loaded in turn.  A flag never goes
\* back to false, so the loads agree with one look at the whole vector.
is_transfer_complete(flags) == \A i \in DOMAIN flags : flags[i]

\* run_connection after its pass: the vector is not all true, return Ok
finish_incomplete(w) ==
    /\ wpc[w] = "check"
    /\ ~is_transfer_complete(received_blocks)
    /\ wpc' = [wpc EXCEPT ![w] = "done"]
    /\ UNCHANGED <<rfile, backlog, c2s, s2c, sside, received_blocks, bytes_received,
                   current_seq, retry_count, retry_delay, slept, tcSent>>
    /\ WorkerFrame
    /\ Idle

\* run_connection after its pass: the vector is all true, send_transfer_complete
send_transfer_complete(w) ==
    /\ wpc[w] = "check"
    /\ is_transfer_complete(received_blocks)
    /\ sside[w] # "closed"
    /\ c2s' = [c2s EXCEPT ![w] =
           Append(@, [type |-> "TransferComplete", file_hash |-> state.file_hash])]
    /\ tcSent' = [tcSent EXCEPT ![w] = "ok"]
    /\ wpc' = [wpc EXCEPT ![w] = "done"]
    /\ UNCHANGED <<rfile, backlog, s2c, sside, received_blocks, bytes_received,
                   current_seq, retry_count, retry_delay, slept>>
    /\ WorkerFrame
    /\ Idle

\* send_transfer_complete on a connection the Sender has closed: the write
\* either is taken by the socket and lost, or fails and the error leaves
\* run_connection
send_transfer_complete_closed(w) ==
    /\ wpc[w] = "check"
    /\ is_transfer_complete(received_blocks)
    /\ sside[w] = "closed"
    /\ \E taken \in BOOLEAN :
          /\ tcSent' = [tcSent EXCEPT ![w] = IF taken THEN "void" ELSE "no"]
          /\ wpc' = [wpc EXCEPT ![w] = IF taken THEN "done" ELSE "failed"]
    /\ UNCHANGED <<rfile, backlog, c2s, s2c, sside, received_blocks, bytes_received,
                   current_seq, retry_count, retry_delay, slept>>
    /\ WorkerFrame
    /\ Idle

(***************************************************************************)
(* The transfer.                                                           *)
(***************************************************************************)
Next ==
    \/ send_handshake
    \/ handshake_reply_received
    \/ handshake_eof_panic
    \/ peer_acknowledges
    \/ accept_loop_check
    \/ accept_and_spawn
    \/ accept_and_drop
    \/ accept_would_block
    \/ send_file_return
    \/ receive_handshake
    \/ receive_file_return
    \/ \E w \in Workers :
          \/ handle_data_request(w)
          \/ handle_verify_block(w)
          \/ handle_transfer_complete(w)
          \/ handle_stream_closed(w)
          \/ thread_release(w)
          \/ thread_signal(w)
          \/ corrupt_data(w)
          \/ worker_connect(w)
          \/ worker_connect_refused(w)
          \/ download_next(w)
          \/ download_request(w)
          \/ download_reply(w)
          \/ download_read_failed(w)
          \/ download_mark(w)
          \/ verify_next(w)
          \/ verify_reply(w)
          \/ verify_read_failed(w)
          \/ finish_incomplete(w)
          \/ send_transfer_complete(w)
          \/ send_transfer_complete_closed(w)

Spec == Init /\ [][Next]_vars

(***************************************************************************)
(* Properties of the transfer.                                             *)
(***************************************************************************)
AllFlagsTrue == \A i \in DOMAIN received_blocks : received_blocks[i]

\* a TransferComplete frame is in flight on connection w
TransferCompleteOnWire(w) ==
    \E k \in DOMAIN c2s[w] : c2s[w][k].type = "TransferComplete"

\* the state C1 promises: transfer port bound and accept loop left, every
\* worker connected, every flag true, a TransferComplete sent
CompletionReached ==
    /\ spc = "returned"
    /\ rpc # "listening"
    /\ \A w \in 1..cfg.n : sside[w] # "none"
    /\ AllFlagsTrue
    /\ \E w \in 1..cfg.n : tcSent[w] = "ok"

\* C1's premises: fresh output path, no corruption, N within the cap, and
\* nothing but receive_file on the other end of the handshake connection
FreshReliableRun ==
    /\ cfg.pre = "fresh"
    /\ faults = 0
    /\ cfg.n <= cfg.cap
    /\ hsReply = <<>>

\* C1: End-to-end completion.  With a fresh output path, a reliable network
\* and 1 <= N <= cap, a run of send_file against receive_file cannot come to
\* rest (both programs stopped) anywhere but in the completion state.
C1_EndToEndCompletion ==
    (FreshReliableRun /\ rpc = "returned" /\ spc \in {"returned", "panicked"})
        => CompletionReached

\* C2: In every reachable state, a block whose flag is true has on the
\* Receiver's disk the bytes of the Sender's block.  The Sender's file never
\* changes and (C3) a flag stays true, so the bytes also stay equal.
C2_MarkedBlocksMatch ==
    \A i \in DOMAIN received_blocks :
        received_blocks[i] =>
            read_file_block(rfile, i, BlockSize) = read_file_block(sfile, i, BlockSize)

\* C2 witness: a block downloaded and marked after a corrupted reply was seen
C2_Witness ==
    /\ cfg.pre = "fresh"
    /\ faults > 0
    /\ \E w \in Workers : retry_count[w] > 0
    /\ \E i \in DOMAIN received_blocks : received_blocks[i]

\* C3: received_blocks is monotonic: no step of any worker turns a true flag
\* back to false.
C3_FlagsMonotonic ==
    [][\A i \in DOMAIN received_blocks : received_blocks[i] => received_blocks'[i]]_vars

\* C3 witness: a flag is true while a worker has exhausted its retries
C3_Witness ==
    /\ \E i \in DOMAIN received_blocks : received_blocks[i]
    /\ \E w \in Workers : wpc[w] = "failed" /\ retry_count[w] >= MAX_RETRIES

\* C4: A TransferComplete has been sent, or is on the wire, only when every
\* flag is true.
C4_CompleteOnlyWhenAllMarked ==
    \A w \in Workers :
        (tcSent[w] # "no" \/ TransferCompleteOnWire(w)) => AllFlagsTrue

\* C4 witness: a TransferComplete on the wire, sent by a worker with an empty
\* range, while another worker has failed
C4_Witness ==
    \E w, v \in 1..cfg.n :
        /\ rpc # "listening"
        /\ TransferCompleteOnWire(w)
        /\ ranges[w].start = ranges[w].end
        /\ wpc[v] = "failed"

\* C5: If every worker finished its pass without error and every flag is
\* true, some worker has sent TransferComplete over a connection the Sender
\* had not closed.
C5_CompletionNotMissed ==
    (/\ rpc # "listening"
     /\ \A w \in 1..cfg.n : wpc[w] = "done"
     /\ AllFlagsTrue)
        => \E w \in 1..cfg.n : tcSent[w] = "ok"

\* C5 witness: two workers with a block each, both finished, all marked
C5_Witness ==
    /\ cfg.n = 2
    /\ rpc # "listening"
    /\ state.total_blocks >= 2
    /\ \A w \in 1..cfg.n : wpc[w] = "done"
    /\ AllFlagsTrue

\* C6: Whenever receive_file has returned success, the output file is
\* byte-identical to the Sender's file.
C6_WholeFileIdentity ==
    rpc = "returned" => rfile = sfile

\* C10: Sticky compression.  Every Data reply on a connection carries the
\* compressed value of the connection's first reply, which is what the
\* handler keeps in compression_enabled from then on.
C10_StickyCompression ==
    \A w \in Workers :
        \A k \in DOMAIN s2c[w] :
            s2c[w][k].type = "Data" =>
                s2c[w][k].compressed = (compression_enabled[w] = "SomeTrue")

\* C11: Checksum-over-wire-bytes.  Every Data the Sender puts on a connection
\* carries the checksum of its data field as sent: of the encoder's output
\* when compressed is true, of the raw block otherwise.  The Receiver
\* compares the checksum with the data field before it decompresses, so a
\* Data whose checksum fits its data field and whose data field unpacks is
\* accepted: the unpacked block is written at its offset and counted.
C11_ChecksumOverWire ==
    [][\A w \in Workers :
          /\ (Len(s2c'[w]) = Len(s2c[w]) + 1
               /\ s2c'[w][Len(s2c'[w])].type = "Data") =>
                 LET d == s2c'[w][Len(s2c'[w])]
                     raw == read_file_block(sfile, d.seq, BlockSize)
                 IN  /\ d.checksum = checksum(d.data)
                     /\ d.data = IF d.compressed THEN GzEncoder(raw) ELSE raw
          /\ (/\ wpc[w] = "await_data"
              /\ s2c[w] # <<>>
              /\ s2c'[w] = Tail(s2c[w])
              /\ Head(s2c[w]).type = "Data"
              /\ Head(s2c[w]).checksum = checksum(Head(s2c[w]).data)
              /\ (Head(s2c[w]).compressed =>
                     decompress_gzip(Head(s2c[w]).data).ok)) =>
                 LET d == Head(s2c[w])
                     block == IF d.compressed THEN decompress_gzip(d.data).data
                              ELSE d.data
                 IN  /\ wpc'[w] = "mark"
                     /\ rfile' = write_file_block(rfile, current_seq[w], BlockSize, block)
                     /\ bytes_received' = bytes_received + Len(block)]_vars

\* C11 witness: a compressed Data, uncorrupted, was accepted by its worker
C11_Witness ==
    \E w \in Workers :
        /\ wpc[w] = "mark"
        /\ faults = 0
        /\ compression_enabled[w] = "SomeTrue"
        /\ LET raw == read_file_block(sfile, current_seq[w], BlockSize)
           IN  Len(GzEncoder(raw)) < Len(raw)

\* C17: Resume.  Over a pre-existing output file of the source's length whose
\* first half of the blocks match, on a reliable network with every worker
\* finished without error, receive_file returns with the file equal to the
\* source and a TransferComplete sent.  The verify pass writes nothing, so a
\* repeated invocation starts from the file this one started from.
C17_Resume ==
    (/\ cfg.pre = "half"
     /\ state.total_blocks >= 2
     /\ faults = 0
     /\ rpc = "returned"
     /\ \A w \in 1..cfg.n : wpc[w] = "done")
        => (rfile = sfile /\ \E w \in 1..cfg.n : tcSent[w] = "ok")

\* C20: Worker failure is reported.  Once a worker has stopped with the error
\* of its exhausted retry budget, receive_file does not return success.
C20_WorkerFailureReported ==
    (\E w \in 1..cfg.n : wpc[w] = "failed" /\ retry_count[w] >= MAX_RETRIES)
        => rpc # "returned"

\* the handler threads that have been spawned and have not yet given their
\* slot back (handle_connection running, or returned and before fetch_sub)
ActiveHandlers == {w \in Workers : hpc[w] \in {"run", "ret_true", "ret_false"}}

\* IsPrefix(s, t): s is a prefix of t
IsPrefix(s, t) == Len(s) <= Len(t) /\ SubSeq(t, 1, Len(s)) = s

\* C26: the Sender never runs more handlers than its cap C, and the counter
\* is the number of handlers running; a connection accepted while C handlers
\* are active is closed with no handler, so nothing it sent is ever read and
\* nothing is ever written to it; spawning a handler raises the counter by
\* one and the handler's end lowers it by one, back to the value before.
C26_ConnectionCap ==
    [][/\ Cardinality(ActiveHandlers) <= cfg.cap
       /\ active_connections = Cardinality(ActiveHandlers)
       /\ (/\ spc = "accept"
           /\ backlog # <<>>
           /\ backlog' = Tail(backlog)
           /\ active_connections >= cfg.cap)
              => (/\ sside'[Head(backlog)] = "closed"
                  /\ hpc' = hpc
                  /\ active_connections' = active_connections
                  /\ c2s' = c2s
                  /\ s2c' = s2c)
       /\ \A w \in Workers :
            /\ (hpc[w] = "none" /\ hpc'[w] = "none")
                  => (IsPrefix(c2s[w], c2s'[w]) /\ s2c'[w] = <<>>)
            /\ (hpc[w] = "none" /\ hpc'[w] # "none")
                  => (/\ active_connections < cfg.cap
                      /\ active_connections' = active_connections + 1)
            /\ (w \in ActiveHandlers /\ hpc'[w] \notin {"run", "ret_true", "ret_false"})
                  => active_connections' = active_connections - 1]_vars

\* a connection was dropped at the cap while a handler runs: its Request
\* stays unread and it has no handler
C26_Witness ==
    \E w, v \in Workers :
        /\ w # v
        /\ hpc[v] = "run"
        /\ active_connections = cfg.cap
        /\ hpc[w] = "none"
        /\ sside[w] = "closed"
        /\ c2s[w] # <<>>
        /\ s2c[w] = <<>>

\* C27: once the Receiver has read the Handshake, the number of ranges it
\* partitions the blocks into, and the number of worker connections it
\* opens (one per range), is the concurrency value the Handshake carried.
C27_NegotiatedConcurrency ==
    rpc = "workers" =>
        /\ Len(ranges) = Head(hsMsg).concurrency
        /\ Cardinality({w \in Workers : wpc[w] # "off"}) = Head(hsMsg).concurrency

\* block i lies in worker w's range
InRange(w, i) == w <= Len(ranges) /\ ranges[w].start <= i /\ i < ranges[w].end

\* the byte positions (from 1) that differ between two files of one length
ChangedBytes(f, g) == {k \in 1..Len(f) : f[k] # g[k]}

\* C35: Range ownership.  After the handshake every block index has exactly
\* one worker whose range contains it.  In every step of every interleaving:
\* a Request or VerifyBlock a worker writes is for a block of its own range;
\* the file changes only when a worker accepts a Data for the block it asked
\* for, a block of its own range, and then only in bytes at positions
\* seq*B .. seq*B + len - 1, all inside that block, the length staying;
\* a flag changes only for the block a worker of that range is at.
C35_RangeOwnership ==
    [][rpc = "workers" =>
        /\ \A i \in 0..(state.total_blocks - 1) :
              Cardinality({w \in 1..cfg.n : InRange(w, i)}) = 1
        /\ \A w \in Workers :
              Len(c2s'[w]) > Len(c2s[w]) =>
                  LET msg == c2s'[w][Len(c2s'[w])]
                  IN  msg.type \in {"Request", "VerifyBlock"} => InRange(w, msg.seq)
        /\ rfile' # rfile =>
              \E w \in 1..cfg.n :
                  LET seq == current_seq[w]
                      wrote == ChangedBytes(rfile, rfile')
                  IN  /\ wpc[w] = "await_data"
                      /\ wpc'[w] = "mark"
                      /\ InRange(w, seq)
                      /\ Len(rfile') = Len(rfile)
                      /\ \A k \in wrote :
                            /\ k > seq * BlockSize
                            /\ k <= seq * BlockSize + (bytes_received' - bytes_received)
                            /\ k <= (seq + 1) * BlockSize
        /\ \A i \in DOMAIN received_blocks :
              received_blocks'[i] # received_blocks[i] =>
                  \E w \in 1..cfg.n :
                      /\ InRange(w, i)
                      /\ current_seq[w] = i
                      /\ wpc'[w] # wpc[w]]_vars

\* C35 witness: two workers have each written a block of their own range
\* and neither has set its flag yet, and both blocks are on disk
C35_Witness ==
    /\ cfg.n = 2
    /\ cfg.pre = "fresh"
    /\ wpc[1] = "mark"
    /\ wpc[2] = "mark"
    /\ current_seq[1] # current_seq[2]
    /\ \A w \in 1..2 :
          /\ InRange(w, current_seq[w])
          /\ read_file_block(rfile, current_seq[w], BlockSize)
                 = read_file_block(sfile, current_seq[w], BlockSize)

\* C38: partial failure isolation.  receive_file has returned only when
\* every worker has ended; in a run for a file of at least one block where
\* a worker has ended with an error, every worker that ended its download pass without one has marked every
\* block of its own range, and no TransferComplete has been sent.
C38_PartialFailureIsolation ==
    /\ rpc = "returned" => \A w \in 1..cfg.n : wpc[w] \in {"done", "failed"}
    /\ (/\ rpc # "listening"
        /\ received_blocks # <<>>
        /\ \E v \in 1..cfg.n : wpc[v] = "failed") =>
          /\ \A w \in 1..cfg.n :
                (wpc[w] = "done" /\ ~state.is_existing_file) =>
                    \A i \in DOMAIN received_blocks :
                        InRange(w, i) => received_blocks[i]
          /\ \A w \in 1..cfg.n :
                tcSent[w] = "no" /\ ~TransferCompleteOnWire(w)

\* C12: Bounded retry.  A block is attempted at most MAX_RETRIES times: the
\* count of failed attempts never passes MAX_RETRIES and an attempt is under
\* way only below it; a successful attempt is followed by the mark of that
\* block and the move to the next; at the MAX_RETRIES-th failure in a row the
\* worker stops with its error, and that block and the later blocks of its
\* range are unmarked.
C12_BoundedRetry ==
    [][\A w \in Workers :
          /\ retry_count'[w] <= MAX_RETRIES
          /\ wpc'[w] \in {"request", "await_data"} => retry_count'[w] < MAX_RETRIES
          /\ retry_count'[w] >= MAX_RETRIES =>
                 /\ wpc'[w] = "failed"
                 /\ \A i \in current_seq'[w]..(ranges'[w].end - 1) :
                        ~received_blocks'[i]
          /\ (wpc[w] = "mark" /\ wpc'[w] # "mark") =>
                 /\ received_blocks'[current_seq[w]]
                 /\ current_seq'[w] = current_seq[w] + 1]_vars

\* C12 witness: a worker stopped at its MAX_RETRIES-th failure with two
\* blocks of its range left
C12_Witness ==
    \E w \in Workers :
        /\ wpc[w] = "failed"
        /\ retry_count[w] = MAX_RETRIES
        /\ ranges[w].end - current_seq[w] >= 2

\* C13: Backoff schedule.  The sleep after the k-th failed attempt of a
\* block, k in 1..MAX_RETRIES-1, lasts INITIAL_RETRY_DELAY_MS * 2^(k-1) ms.
C13_BackoffSchedule ==
    \A w \in Workers :
        (slept[w] # 0 /\ retry_count[w] \in 1..(MAX_RETRIES - 1)) =>
            slept[w] = INITIAL_RETRY_DELAY_MS * 2^(retry_count[w] - 1)

\* C24: Corrupted data.  A Data reply whose checksum field differs from the
\* checksum of its data field changes neither the file nor received_blocks
\* nor bytes_received: the attempt is counted as failed, the worker stays on
\* the same seq and, within the budget, writes its Request for that seq on
\* the same connection again.  A Data reply that is clean is written at the
\* block's offset, and the block is then marked.
C24_CorruptedData ==
    [][\A w \in Workers :
          /\ (/\ wpc[w] = "await_data"
              /\ s2c[w] # <<>>
              /\ s2c'[w] = Tail(s2c[w])
              /\ Head(s2c[w]).type = "Data"
              /\ Head(s2c[w]).checksum # checksum(Head(s2c[w]).data)) =>
                 /\ rfile' = rfile
                 /\ received_blocks' = received_blocks
                 /\ bytes_received' = bytes_received
                 /\ current_seq'[w] = current_seq[w]
                 /\ retry_count'[w] = retry_count[w] + 1
                 /\ wpc'[w] = IF retry_count[w] + 1 < MAX_RETRIES
                              THEN "request" ELSE "failed"
          /\ (/\ wpc[w] = "request"
              /\ wpc'[w] = "await_data") =>
                 c2s'[w] = Append(c2s[w], [type |-> "Request",
                                           file_hash |-> state.file_hash,
                                           seq |-> current_seq[w]])
          /\ (/\ wpc[w] = "await_data"
              /\ wpc'[w] = "mark") =>
                 LET d == Head(s2c[w])
                 IN  /\ d.checksum = checksum(d.data)
                     /\ read_file_block(rfile', current_seq[w], BlockSize)
                            = IF d.compressed THEN decompress_gzip(d.data).data
                              ELSE d.data
          /\ (wpc[w] = "mark" /\ wpc'[w] # "mark") =>
                 received_blocks'[current_seq[w]]]_vars

\* C24 witness: after a corrupted reply was rejected, the second attempt for
\* the same block was clean: the block is on disk and about to be marked
C24_Witness ==
    \E w \in Workers :
        /\ faults = 1
        /\ wpc[w] = "mark"
        /\ retry_count[w] = 1
        /\ ~received_blocks[current_seq[w]]
        /\ read_file_block(rfile, current_seq[w], BlockSize)
               = read_file_block(sfile, current_seq[w], BlockSize)
        /\ read_file_block(sfile, current_seq[w], BlockSize) # <<>>

\* block i has been accepted: its flag is true, or its Data was written and
\* counted and its worker is about to store the flag
Accepted(i) ==
    received_blocks[i] \/ \E w \in 1..cfg.n : wpc[w] = "mark" /\ current_seq[w] = i

\* the lengths of the accepted blocks among 0..(n - 1), summed
RECURSIVE AcceptedBytes(_)
AcceptedBytes(n) ==
    IF n = 0 THEN 0
    ELSE AcceptedBytes(n - 1)
           + (IF Accepted(n - 1)
              THEN Len(read_file_block(sfile, n - 1, BlockSize)) ELSE 0)

\* C25: bytes_received accounting.  In every state after a Handshake was
\* taken, bytes_received is the sum of the lengths of the blocks accepted so
\* far, each counted once; it never exceeds the Handshake's total_size and
\* equals it when every flag is true.
C25_BytesReceived ==
    rpc \in {"workers", "returned"} =>
        /\ bytes_received = AcceptedBytes(state.total_blocks)
        /\ bytes_received <= Head(hsMsg).total_size
        /\ AllFlagsTrue => bytes_received = Head(hsMsg).total_size

(***************************************************************************)
(* The Sender's accept loop and handlers against clients that write any    *)
(* short sequence of Receiver messages and close.                          *)
(***************************************************************************)
\* a fingerprint that is not this transfer's
WrongHash(h) == h + 1

\* the messages a client can write: every variant of ReceiverMessageV1, with
\* the transfer's fingerprint or another, a right or a wrong block checksum
ClientMessages(h, file) ==
    LET hashes == {h, WrongHash(h)}
        seqs == 0..(div_ceil(Len(file), BlockSize) - 1)
        sum(seq, right) == checksum(read_file_block(file, seq, BlockSize))
                               + (IF right THEN 0 ELSE 1)
    IN  [type : {"Request"}, file_hash : hashes, seq : seqs]
          \cup {[type |-> "VerifyBlock", file_hash |-> g, seq |-> q,
                 checksum |-> sum(q, right)] :
                   g \in hashes, q \in seqs, right \in BOOLEAN}
          \cup [type : {"Progress"}, file_hash : hashes, bytes_received : {0}]
          \cup [type : {"TransferComplete"}, file_hash : hashes]
          \cup {[type |-> "Error", code |-> 500, message |-> "e"]}

\* the sequences of at most len client messages
Scripts(h, file, len) ==
    UNION {[1..k -> ClientMessages(h, file)] : k \in 0..len}

\* send_file in its accept loop, the clients' connections waiting in the
\* listener with everything they write already in flight; the first client
\* writes up to MaxScript messages, the others one less
HandlerStart(len) ==
    /\ sfile = SourceFile(BlockSize + ShortLen)
    /\ expected_hash = get_file_blake3_hash(sfile)
    /\ \E n \in 1..MaxWorkers, cap \in 1..MaxCap :
       \E first \in Scripts(expected_hash, sfile, len),
          other \in Scripts(expected_hash, sfile, len - 1) :
          /\ cfg = [size |-> Len(sfile), n |-> n, cap |-> cap, pre |-> "fresh",
                    scripts |-> [w \in Workers |-> IF w > n THEN <<>>
                                                   ELSE IF w = 1 THEN first
                                                   ELSE other]]
          /\ c2s = cfg.scripts
    /\ backlog = [i \in 1..cfg.n |-> i]
    /\ sside = [w \in Workers |-> IF w <= cfg.n THEN "backlog" ELSE "none"]
    /\ wpc = [w \in Workers |-> IF w <= cfg.n THEN "done" ELSE "off"]
    /\ spc = "loop_top"
    /\ listening = TRUE
    /\ rfile = <<>>
    /\ faults = 0
    /\ hsMsg = <<>>
    /\ hsReply = <<>>
    /\ hsOpen = FALSE
    /\ active_connections = 0
    /\ transfer_complete = FALSE
    /\ hpc = [w \in Workers |-> "none"]
    /\ compression_enabled = [w \in Workers |-> "None"]
    /\ s2c = [w \in Workers |-> <<>>]
    /\ rpc = "returned"
    /\ state = [file_hash |-> 0, block_size |-> 0, total_blocks |-> 0,
                is_existing_file |-> FALSE]
    /\ ranges = <<>>
    /\ received_blocks = <<>>
    /\ bytes_received = 0
    /\ current_seq = [w \in Workers |-> 0]
    /\ retry_count = [w \in Workers |-> 0]
    /\ retry_delay = [w \in Workers |-> INITIAL_RETRY_DELAY_MS]
    /\ slept = [w \in Workers |-> 0]
    /\ tcSent = [w \in Workers |-> "no"]
    /\ FrameIdle
    /\ SplitIdle
    /\ CallIdle
    /\ BlockIdle
    /\ CliIdle

HandlerInit == HandlerStart(MaxScript)

HandlerNext ==
    \/ accept_loop_check
    \/ accept_and_spawn
    \/ accept_and_drop
    \/ accept_would_block
    \/ send_file_return
    \/ \E w \in Workers :
          \/ handle_data_request(w)
          \/ handle_verify_block(w)
          \/ handle_progress(w)
          \/ handle_transfer_complete(w)
          \/ handle_error(w)
          \/ handle_stream_closed(w)
          \/ thread_release(w)
          \/ thread_signal(w)

HandlerSpec == HandlerInit /\ [][HandlerNext]_vars

\* the handler of connection w takes the message at the head of c2s[w]
HandlerReads(w) ==
    /\ hpc[w] = "run"
    /\ c2s[w] # <<>>
    /\ c2s'[w] = Tail(c2s[w])

\* nothing but connection w's handler moves in this step
OthersUntouched(w) ==
    /\ \A v \in Workers \ {w} :
          /\ hpc'[v] = hpc[v]
          /\ sside'[v] = sside[v]
          /\ s2c'[v] = s2c[v]
          /\ c2s'[v] = c2s[v]
          /\ compression_enabled'[v] = compression_enabled[v]
    /\ UNCHANGED <<spc, listening, backlog, active_connections>>

\* the k-th message client w wrote has been taken by the handler
Consumed(w, k) ==
    /\ k \in DOMAIN cfg.scripts[w]
    /\ hpc[w] # "none"
    /\ Len(cfg.scripts[w]) - Len(c2s[w]) >= k

\* C14: Fingerprint mismatch on the Sender.  When a handler reads a Request,
\* VerifyBlock, Progress or TransferComplete whose file_hash is not the
\* expected one, handle_connection returns false: no reply is written, the
\* connection is closed, the termination flag is not set then or by the
\* thread's epilogue, and the accept loop and the other connections are as
\* they were.
C14_FingerprintMismatch ==
    [][\A w \in Workers :
          /\ (/\ HandlerReads(w)
              /\ Head(c2s[w]).type \in
                     {"Request", "VerifyBlock", "Progress", "TransferComplete"}
              /\ Head(c2s[w]).file_hash # expected_hash) =>
                 /\ s2c'[w] = s2c[w]
                 /\ sside'[w] = "closed"
                 /\ hpc'[w] = "ret_false"
                 /\ transfer_complete' = transfer_complete
                 /\ OthersUntouched(w)
          /\ (hpc[w] = "ret_false" /\ hpc'[w] # "ret_false") =>
                 /\ hpc'[w] = "done"
                 /\ transfer_complete' = transfer_complete
                 /\ s2c'[w] = s2c[w]]_vars

\* C14 witness: a connection ended on a first message with a foreign
\* fingerprint, nothing written on it and the flag unset, while the other
\* connection has had a reply
C14_Witness ==
    \E w, v \in 1..cfg.n :
        /\ Consumed(w, 1)
        /\ cfg.scripts[w][1].type # "Error"
        /\ cfg.scripts[w][1].file_hash # expected_hash
        /\ hpc[w] = "done"
        /\ s2c[w] = <<>>
        /\ ~transfer_complete
        /\ s2c[v] # <<>>

\* C15: Termination-flag discipline.  transfer_complete goes to true only in
\* the epilogue of a handler thread whose handle_connection returned true,
\* and handle_connection returns true only on a TransferComplete with the
\* expected fingerprint; so whenever the flag is set some client's matching
\* TransferComplete has been read.  The accept loop is left only with the
\* flag set.
C15_TerminationFlag ==
    [][/\ (transfer_complete' /\ ~transfer_complete) =>
              \E w \in Workers : hpc[w] = "signal" /\ hpc'[w] = "done"
       /\ \A w \in Workers :
              /\ (hpc'[w] = "signal" /\ hpc[w] # "signal") => hpc[w] = "ret_true"
              /\ (hpc'[w] = "ret_true" /\ hpc[w] # "ret_true") =>
                     /\ HandlerReads(w)
                     /\ Head(c2s[w]).type = "TransferComplete"
                     /\ Head(c2s[w]).file_hash = expected_hash
       /\ transfer_complete' =>
              \E w \in 1..cfg.n : \E k \in DOMAIN cfg.scripts[w] :
                  /\ Consumed(w, k)'
                  /\ cfg.scripts[w][k].type = "TransferComplete"
                  /\ cfg.scripts[w][k].file_hash = expected_hash
       /\ (spc' \in {"join", "returned"} /\ spc \notin {"join", "returned"}) =>
              transfer_complete
       /\ spc' \in {"join", "returned"} => transfer_complete']_vars

\* C15 witness: send_file has left its loop after one client's matching
\* TransferComplete, while the other client's connection ended on a message
\* that does not set the flag
C15_Witness ==
    \E w, v \in 1..cfg.n :
        /\ spc = "returned"
        /\ transfer_complete
        /\ w # v
        /\ Consumed(v, 1)
        /\ \/ cfg.scripts[v][1].type = "Error"
           \/ /\ cfg.scripts[v][1].type = "TransferComplete"
              /\ cfg.scripts[v][1].file_hash # expected_hash
        /\ hpc[v] = "done"
        /\ hpc[w] = "done"

\* C18: Verify response.  For a VerifyBlock with the expected fingerprint the
\* handler writes exactly one VerifyResponse, with the request's seq and with
\* valid true exactly when the checksum of its own raw block equals the
\* request's checksum; the connection's compression decision plays no part
\* and is left as it was.
C18_VerifyResponse ==
    [][\A w \in Workers :
          (/\ HandlerReads(w)
           /\ Head(c2s[w]).type = "VerifyBlock"
           /\ Head(c2s[w]).file_hash = expected_hash) =>
              LET verify == Head(c2s[w])
                  raw == read_file_block(sfile, verify.seq, BlockSize)
              IN  /\ s2c'[w] = Append(s2c[w],
                         [type |-> "VerifyResponse",
                          file_hash |-> expected_hash,
                          seq |-> verify.seq,
                          valid |-> (checksum(raw) = verify.checksum)])
                  /\ compression_enabled'[w] = compression_enabled[w]
                  /\ hpc'[w] = "run"]_vars

\* C18 witness: on a connection whose handler has decided to compress, a
\* Data reply is followed by a VerifyResponse with valid false
C18_Witness ==
    \E w \in 1..cfg.n :
        /\ compression_enabled[w] = "SomeTrue"
        /\ Len(s2c[w]) = 2
        /\ s2c[w][1].type = "Data"
        /\ s2c[w][1].compressed
        /\ s2c[w][2].type = "VerifyResponse"
        /\ ~s2c[w][2].valid

(***************************************************************************)
(* receive_file against a peer that sends any message first and answers    *)
(* the workers' requests with any Sender message, or closes.               *)
(***************************************************************************)
\* the size of a file of one short block more than u32::MAX + 1 blocks
HugeSize == (U32Max + 1) * BlockSize + ShortLen

\* what the peer can send first on the handshake connection: the Handshake
\* of its file, the Handshake of a file of HugeSize bytes, or another variant
\* of SenderMessageV1
FirstMessages(file) ==
    {[type |-> "Handshake",
      file_hash |-> get_file_blake3_hash(file),
      total_size |-> Len(file),
      concurrency |-> MaxCap,
      file_name |-> "f",
      block_size |-> BlockSize],
     [type |-> "Handshake",
      file_hash |-> get_file_blake3_hash(file),
      total_size |-> HugeSize,
      concurrency |-> MaxCap,
      file_name |-> "f",
      block_size |-> BlockSize],
     [type |-> "Error", code |-> 500, message |-> "e"],
     [type |-> "VerifyResponse", file_hash |-> get_file_blake3_hash(file),
      seq |-> 0, valid |-> TRUE],
     [type |-> "Data", seq |-> 0, checksum |-> checksum(<<>>),
      file_hash |-> get_file_blake3_hash(file), compressed |-> FALSE,
      data |-> <<>>]}

\* what the peer can answer to a request for block seq: the block raw or
\* compressed with the checksum of the bytes sent, the block with a wrong
\* checksum, the raw block flagged as compressed, an Error, or a
\* VerifyResponse for this or the next block; a Data and a VerifyResponse
\* that are in order except for the fingerprint of another file; and the
\* Data of the next block, in order in itself
PeerReplies(file, h, seq) ==
    LET raw == read_file_block(file, seq, BlockSize)
        next == read_file_block(file, seq + 1, BlockSize)
        Data(sum, flag, bytes) ==
            [type |-> "Data", seq |-> seq, checksum |-> sum, file_hash |-> h,
             compressed |-> flag, data |-> bytes]
    IN  {Data(checksum(raw), FALSE, raw),
         [Data(checksum(raw), FALSE, raw) EXCEPT !.file_hash = WrongHash(h)],
         [type |-> "VerifyResponse", file_hash |-> WrongHash(h), seq |-> seq,
          valid |-> TRUE],
         Data(checksum(GzEncoder(raw)), TRUE, GzEncoder(raw)),
         Data(checksum(raw) + 1, FALSE, raw),
         Data(checksum(raw), TRUE, raw),
         [Data(checksum(next), FALSE, next) EXCEPT !.seq = seq + 1],
         [type |-> "Error", code |-> 500, message |-> "e"],
         [type |-> "VerifyResponse", file_hash |-> h, seq |-> seq, valid |-> TRUE],
         [type |-> "VerifyResponse", file_hash |-> h, seq |-> seq, valid |-> FALSE],
         [type |-> "VerifyResponse", file_hash |-> h, seq |-> seq + 1, valid |-> TRUE]}

\* the peer leaves the files and both programs' own variables alone
PeerFrame ==
    UNCHANGED <<cfg, sfile, rfile, faults, hsMsg, hsReply, hsOpen, spc,
                expected_hash, listening, backlog, active_connections,
                transfer_complete, hpc, compression_enabled, rpc, state, ranges,
                received_blocks, bytes_received, wpc, current_seq, retry_count,
                retry_delay, slept, tcSent>>

\* Environment.  The peer reads the Request or VerifyBlock a worker wrote
\* and writes one message back.
peer_reply(w) ==
    /\ sside[w] = "backlog"
    /\ c2s[w] # <<>>
    /\ Head(c2s[w]).type \in {"Request", "VerifyBlock"}
    /\ c2s' = [c2s EXCEPT ![w] = Tail(@)]
    /\ \E reply \in PeerReplies(sfile, state.file_hash, Head(c2s[w]).seq) :
          s2c' = [s2c EXCEPT ![w] = Append(@, reply)]
    /\ UNCHANGED sside
    /\ PeerFrame
    /\ Idle

\* Environment.  The peer closes a worker's connection.
peer_closes(w) ==
    /\ sside[w] = "backlog"
    /\ sside' = [sside EXCEPT ![w] = "closed"]
    /\ UNCHANGED <<c2s, s2c>>
    /\ PeerFrame
    /\ Idle

\* receive_file listening, the peer's first message in flight on the
\* handshake connection, the peer's transfer port bound or not
ReceiverInit ==
    /\ cfg \in [size : {BlockSize + ShortLen}, n : 1..MaxWorkers, cap : {MaxCap},
                pre : {"fresh", "same", "half"}]
    /\ sfile = SourceFile(cfg.size)
    /\ rfile = ExistingFile(cfg.pre, sfile)
    /\ \E message \in FirstMessages(sfile) : hsMsg = <<message>>
    /\ listening \in BOOLEAN
    /\ spc = "off"
    /\ rpc = "listening"
    /\ faults = 0
    /\ hsReply = <<>>
    /\ hsOpen = TRUE
    /\ expected_hash = 0
    /\ backlog = <<>>
    /\ active_connections = 0
    /\ transfer_complete = FALSE
    /\ hpc = [w \in Workers |-> "none"]
    /\ compression_enabled = [w \in Workers |-> "None"]
    /\ c2s = [w \in Workers |-> <<>>]
    /\ s2c = [w \in Workers |-> <<>>]
    /\ sside = [w \in Workers |-> "none"]
    /\ state = [file_hash |-> 0, block_size |-> 0, total_blocks |-> 0,
                is_existing_file |-> FALSE]
    /\ ranges = <<>>
    /\ received_blocks = <<>>
    /\ bytes_received = 0
    /\ wpc = [w \in Workers |-> "off"]
    /\ current_seq = [w \in Workers |-> 0]
    /\ retry_count = [w \in Workers |-> 0]
    /\ retry_delay = [w \in Workers |-> INITIAL_RETRY_DELAY_MS]
    /\ slept = [w \in Workers |-> 0]
    /\ tcSent = [w \in Workers |-> "no"]
    /\ FrameIdle
    /\ SplitIdle
    /\ CallIdle
    /\ BlockIdle
    /\ CliIdle

ReceiverNext ==
    \/ receive_handshake
    \/ receive_file_return
    \/ \E w \in Workers :
          \/ worker_connect(w)
          \/ worker_connect_refused(w)
          \/ download_next(w)
          \/ download_request(w)
          \/ download_reply(w)
          \/ download_read_failed(w)
          \/ download_mark(w)
          \/ verify_next(w)
          \/ verify_reply(w)
          \/ verify_read_failed(w)
          \/ finish_incomplete(w)
          \/ send_transfer_complete(w)
          \/ send_transfer_complete_closed(w)
          \/ peer_reply(w)
          \/ peer_closes(w)

ReceiverSpec == ReceiverInit /\ [][ReceiverNext]_vars

\* C16: Verify-first marking rule.  When the reply to the VerifyBlock of
\* block seq is read, the block is marked and its length added to
\* bytes_received exactly when the reply is a VerifyResponse with that seq
\* and valid true; on another seq, valid false, an Error or another variant
\* the flag stays false and bytes_received is unchanged.  Either way no other
\* flag and no byte of the file changes and the pass goes on with seq + 1.
C16_VerifyMarking ==
    [][\A w \in Workers :
          (/\ wpc[w] = "await_verify"
           /\ s2c[w] # <<>>
           /\ s2c'[w] = Tail(s2c[w])) =>
              LET reply == Head(s2c[w])
                  seq == current_seq[w]
                  accepted == /\ reply.type = "VerifyResponse"
                              /\ reply.seq = seq
                              /\ reply.valid
                  length == Len(read_file_block(rfile, seq, BlockSize))
              IN  /\ ~received_blocks[seq]
                  /\ received_blocks'[seq] = accepted
                  /\ bytes_received' =
                         bytes_received + (IF accepted THEN length ELSE 0)
                  /\ \A i \in DOMAIN received_blocks \ {seq} :
                         received_blocks'[i] = received_blocks[i]
                  /\ rfile' = rfile
                  /\ current_seq'[w] = seq + 1
                  /\ wpc'[w] = "verify"]_vars

\* C16 witness: over a file equal to the source, a worker has had the replies
\* for its first two blocks: the first block is marked and counted, the
\* second is not
C16_Witness ==
    \E w \in 1..cfg.n :
        /\ cfg.pre = "same"
        /\ wpc[w] = "verify"
        /\ current_seq[w] = ranges[w].start + 2
        /\ received_blocks[ranges[w].start]
        /\ ~received_blocks[ranges[w].start + 1]
        /\ bytes_received = Len(read_file_block(rfile, ranges[w].start, BlockSize))

\* C28: once the Receiver has read a Handshake, the number of
\* received_blocks flags and the upper end of the partitioned index space
\* are ceil(total_size / block_size), whatever total_size was declared.
C28_BlockCount ==
    rpc = "workers" =>
        LET handshake == Head(hsMsg)
            blocks == div_ceil(handshake.total_size, handshake.block_size)
        IN  /\ DOMAIN received_blocks = 0..(blocks - 1)
            /\ ranges[Len(ranges)].end = blocks

\* C29: Receiver-side fingerprint check.  When a worker reads a Data or a
\* VerifyResponse whose file_hash is not the Handshake's fingerprint, the
\* file is not written, no flag is set and bytes_received does not change.
C29_ReceiverFingerprint ==
    [][\A w \in Workers :
          (/\ wpc[w] \in {"await_data", "await_verify"}
           /\ s2c[w] # <<>>
           /\ s2c'[w] = Tail(s2c[w])
           /\ Head(s2c[w]).type \in {"Data", "VerifyResponse"}
           /\ Head(s2c[w]).file_hash # state.file_hash) =>
              (/\ rfile' = rfile
               /\ received_blocks' = received_blocks
               /\ bytes_received' = bytes_received)]_vars

\* C39: reply matching in the download pass.  When a worker that waits for
\* the Data of the block it requested reads a Data whose seq is another
\* block's, the file is not written, bytes_received does not change and the
\* requested block is not going to be marked.
C39_ReplyMatching ==
    [][\A w \in Workers :
          (/\ wpc[w] = "await_data"
           /\ s2c[w] # <<>>
           /\ s2c'[w] = Tail(s2c[w])
           /\ Head(s2c[w]).type = "Data"
           /\ Head(s2c[w]).seq # current_seq[w]) =>
              (/\ rfile' = rfile
               /\ bytes_received' = bytes_received
               /\ wpc'[w] # "mark")]_vars

\* C19: Handshake gate.  If the first message on the handshake connection is
\* not a Handshake, receive_file returns UnexpectedMessage, and from then on
\* the output path holds what it held before, no flag vector or range
\* exists, no worker has started and none has connected.
C19_HandshakeGate ==
    [][/\ (/\ rpc = "listening"
           /\ rpc' # rpc
           /\ Head(hsMsg).type # "Handshake") => rpc' = "UnexpectedMessage"
       /\ rpc' = "UnexpectedMessage" =>
              /\ Head(hsMsg).type # "Handshake"
              /\ rfile' = ExistingFile(cfg.pre, sfile)
              /\ received_blocks' = <<>>
              /\ ranges' = <<>>
              /\ \A w \in Workers :
                     /\ wpc'[w] = "off"
                     /\ sside'[w] = "none"
                     /\ c2s'[w] = <<>>
              /\ backlog' = <<>>]_vars

\* C19 witness: receive_file has failed on a Data sent first, over a
\* pre-existing file, with the peer's transfer port bound
C19_Witness ==
    /\ rpc = "UnexpectedMessage"
    /\ Head(hsMsg).type = "Data"
    /\ cfg.pre = "half"
    /\ listening

(***************************************************************************)
(* The transfer at rest, for the specifications that do not run it.        *)
(***************************************************************************)
TransferOff ==
    /\ cfg = [size |-> 0, n |-> 1, cap |-> 1, pre |-> "fresh"]
    /\ sfile = <<>>
    /\ rfile = <<>>
    /\ faults = 0
    /\ hsMsg = <<>>
    /\ hsReply = <<>>
    /\ hsOpen = FALSE
    /\ spc = "off"
    /\ expected_hash = 0
    /\ listening = FALSE
    /\ backlog = <<>>
    /\ active_connections = 0
    /\ transfer_complete = FALSE
    /\ hpc = [w \in Workers |-> "none"]
    /\ compression_enabled = [w \in Workers |-> "None"]
    /\ c2s = [w \in Workers |-> <<>>]
    /\ s2c = [w \in Workers |-> <<>>]
    /\ sside = [w \in Workers |-> "none"]
    /\ rpc = "off"
    /\ state = [file_hash |-> 0, block_size |-> 0, total_blocks |-> 0,
                is_existing_file |-> FALSE]
    /\ ranges = <<>>
    /\ received_blocks = <<>>
    /\ bytes_received = 0
    /\ wpc = [w \in Workers |-> "off"]
    /\ current_seq = [w \in Workers |-> 0]
    /\ retry_count = [w \in Workers |-> 0]
    /\ retry_delay = [w \in Workers |-> INITIAL_RETRY_DELAY_MS]
    /\ slept = [w \in Workers |-> 0]
    /\ tcSent = [w \in Workers |-> "no"]

(***************************************************************************)
(* SplitSpec: split_blocks_into_ranges applied to drawn arguments.         *)
(***************************************************************************)
SplitInit ==
    /\ TransferOff
    /\ FrameIdle
    /\ CallIdle
    /\ BlockIdle
    /\ CliIdle
    /\ \E t \in 0..MaxSplitBlocks, n \in 1..MaxSplitWorkers :
          sp = [phase |-> "input", total_blocks |-> t, concurrency |-> n]

split_call ==
    /\ sp.phase = "input"
    /\ sp' = [phase |-> "output",
              total_blocks |-> sp.total_blocks,
              concurrency |-> sp.concurrency,
              ranges |-> split_blocks_into_ranges(sp.total_blocks, sp.concurrency)]
    /\ UNCHANGED <<pvars, fr, hr, fb, cl>>

SplitNext == split_call

SplitSpec == SplitInit /\ [][SplitNext]_vars

\* C7: Partition correctness.  split_blocks_into_ranges(total_blocks, N)
\* returns exactly N ranges, contiguous and in increasing order from 0 to
\* total_blocks, every block in exactly one of them; the first
\* (total_blocks mod N) ranges have length ceil(total_blocks / N), the
\* others floor(total_blocks / N).
C7_PartitionCorrect ==
    sp.phase = "output" =>
        LET r == sp.ranges
            t == sp.total_blocks
            n == sp.concurrency
        IN  /\ Len(r) = n
            /\ r[1].start = 0
            /\ r[n].end = t
            /\ \A k \in 1..n : r[k].start <= r[k].end
            /\ \A k \in 1..(n - 1) : r[k].end = r[k + 1].start
            /\ \A b \in 0..(t - 1) :
                  Cardinality({k \in 1..n : r[k].start <= b /\ b < r[k].end}) = 1
            /\ \A k \in 1..n :
                  r[k].end - r[k].start =
                      IF k <= t % n THEN (t + n - 1) \div n ELSE t \div n

\* C7 witness: a split with a remainder and a split with empty ranges
C7_Witness ==
    /\ sp.phase = "output"
    /\ sp.total_blocks % sp.concurrency # 0
    /\ sp.total_blocks < sp.concurrency
    /\ \E k \in 1..sp.concurrency : sp.ranges[k].start = sp.ranges[k].end

(***************************************************************************)
(* The wire format (transport.rs): postcard payloads under text headers.   *)
(***************************************************************************)
\* format!("{}", n) as bytes
RECURSIVE to_decimal(_)
to_decimal(n) ==
    IF n < 10 THEN <<48 + n>>
    ELSE to_decimal(n \div 10) \o <<48 + (n % 10)>>

\* attach_headers: "Ver: 1\r\n" "Len: <payload length>\r\n" "\r\n" payload
attach_headers(payload) ==
    VERSION_HEADER_PRIFIX \o to_decimal(CURRENT_PROTOCOL_VERSION) \o MESSAGE_DELIMITER
        \o LENGTH_HEADER_PREFIX \o to_decimal(Len(payload)) \o MESSAGE_DELIMITER
        \o MESSAGE_DELIMITER
        \o payload

\* postcard: an unsigned integer as a little-endian base-128 varint
RECURSIVE varint(_)
varint(n) ==
    IF n < 128 THEN <<n>>
    ELSE <<128 + (n % 128)>> \o varint(n \div 128)

\* postcard: a byte slice or string, length-prefixed
slice(b) == varint(Len(b)) \o b

\* postcard: a bool
bool(b) == IF b THEN <<1>> ELSE <<0>>

\* postcard::to_slice of a SenderMessageV1: variant index, then the fields
\* in declaration order
sender_to_bytes(m) ==
    IF m.type = "Handshake"
    THEN <<0>> \o slice(m.file_hash) \o varint(m.total_size) \o varint(m.concurrency)
             \o slice(m.file_name) \o varint(m.block_size)
    ELSE IF m.type = "Data"
    THEN <<1>> \o varint(m.seq) \o varint(m.checksum) \o slice(m.file_hash)
             \o bool(m.compressed) \o slice(m.data)
    ELSE IF m.type = "Error"
    THEN <<2>> \o varint(m.code) \o slice(m.message)
    ELSE <<3>> \o m.file_hash \o varint(m.seq) \o bool(m.valid)

\* postcard::to_slice of a ReceiverMessageV1 (the fingerprint is a fixed
\* array: no length prefix)
receiver_to_bytes(m) ==
    IF m.type = "Request"
    THEN <<0>> \o m.file_hash \o varint(m.seq)
    ELSE IF m.type = "Progress"
    THEN <<1>> \o m.file_hash \o varint(m.bytes_received)
    ELSE IF m.type = "TransferComplete"
    THEN <<2>> \o m.file_hash
    ELSE IF m.type = "Error"
    THEN <<3>> \o varint(m.code) \o slice(m.message)
    ELSE <<4>> \o m.file_hash \o varint(m.seq) \o varint(m.checksum)

to_bytes(dir, m) ==
    IF dir = "sender" THEN sender_to_bytes(m) ELSE receiver_to_bytes(m)

\* Deserializing takes values off the front of the bytes: each take_ yields
\* [ok, val, rest].
Failed == [ok |-> FALSE, val |-> 0, rest |-> <<>>]

RECURSIVE take_varint(_)
take_varint(b) ==
    IF b = <<>> THEN Failed
    ELSE IF b[1] < 128 THEN [ok |-> TRUE, val |-> b[1], rest |-> Tail(b)]
    ELSE LET r == take_varint(Tail(b))
         IN  IF r.ok
             THEN [ok |-> TRUE, val |-> (b[1] - 128) + 128 * r.val, rest |-> r.rest]
             ELSE Failed

take_array(b, n) ==
    IF Len(b) < n THEN Failed
    ELSE [ok |-> TRUE, val |-> SubSeq(b, 1, n), rest |-> SubSeq(b, n + 1, Len(b))]

take_slice(b) ==
    LET n == take_varint(b)
    IN  IF n.ok THEN take_array(n.rest, n.val) ELSE Failed

\* a &str or String: the bytes must be UTF-8 (here: ASCII)
take_str(b) ==
    LET r == take_slice(b)
    IN  IF r.ok /\ \A i \in DOMAIN r.val : r.val[i] < 128 THEN r ELSE Failed

take_bool(b) ==
    IF b = <<>> \/ b[1] > 1 THEN Failed
    ELSE [ok |-> TRUE, val |-> b[1] = 1, rest |-> Tail(b)]

NoMessage == [ok |-> FALSE, message |-> [type |-> "none"]]

\* postcard::from_bytes::<SenderMessageV1>; bytes after the value are ignored
sender_from_bytes(b) ==
    IF b = <<>> THEN NoMessage
    ELSE IF b[1] = 0
    THEN LET h == take_slice(Tail(b))
             t == take_varint(h.rest)
             c == take_varint(t.rest)
             f == take_str(c.rest)
             z == take_varint(f.rest)
         IN  IF h.ok /\ t.ok /\ c.ok /\ f.ok /\ z.ok
             THEN [ok |-> TRUE,
                   message |-> [type |-> "Handshake", file_hash |-> h.val,
                                total_size |-> t.val, concurrency |-> c.val,
                                file_name |-> f.val, block_size |-> z.val]]
             ELSE NoMessage
    ELSE IF b[1] = 1
    THEN LET q == take_varint(Tail(b))
             c == take_varint(q.rest)
             h == take_slice(c.rest)
             z == take_bool(h.rest)
             d == take_slice(z.rest)
         IN  IF q.ok /\ c.ok /\ h.ok /\ z.ok /\ d.ok
             THEN [ok |-> TRUE,
                   message |-> [type |-> "Data", seq |-> q.val, checksum |-> c.val,
                                file_hash |-> h.val, compressed |-> z.val,
                                data |-> d.val]]
             ELSE NoMessage
    ELSE IF b[1] = 2
    THEN LET c == take_varint(Tail(b))
             t == take_str(c.rest)
         IN  IF c.ok /\ t.ok
             THEN [ok |-> TRUE,
                   message |-> [type |-> "Error", code |-> c.val, message |-> t.val]]
             ELSE NoMessage
    ELSE IF b[1] = 3
    THEN LET h == take_array(Tail(b), HashLen)
             q == take_varint(h.rest)
             v == take_bool(q.rest)
         IN  IF h.ok /\ q.ok /\ v.ok
             THEN [ok |-> TRUE,
                   message |-> [type |-> "VerifyResponse", file_hash |-> h.val,
                                seq |-> q.val, valid |-> v.val]]
             ELSE NoMessage
    ELSE NoMessage

\* postcard::from_bytes::<ReceiverMessageV1>
receiver_from_bytes(b) ==
    IF b = <<>> THEN NoMessage
    ELSE IF b[1] = 0
    THEN LET h == take_array(Tail(b), HashLen)
             q == take_varint(h.rest)
         IN  IF h.ok /\ q.ok
             THEN [ok |-> TRUE,
                   message |-> [type |-> "Request", file_hash |-> h.val, seq |-> q.val]]
             ELSE NoMessage
    ELSE IF b[1] = 1
    THEN LET h == take_array(Tail(b), HashLen)
             n == take_varint(h.rest)
         IN  IF h.ok /\ n.ok
             THEN [ok |-> TRUE,
                   message |-> [type |-> "Progress", file_hash |-> h.val,
                                bytes_received |-> n.val]]
             ELSE NoMessage
    ELSE IF b[1] = 2
    THEN LET h == take_array(Tail(b), HashLen)
         IN  IF h.ok
             THEN [ok |-> TRUE,
                   message |-> [type |-> "TransferComplete", file_hash |-> h.val]]
             ELSE NoMessage
    ELSE IF b[1] = 3
    THEN LET c == take_varint(Tail(b))
             t == take_str(c.rest)
         IN  IF c.ok /\ t.ok
             THEN [ok |-> TRUE,
                   message |-> [type |-> "Error", code |-> c.val, message |-> t.val]]
             ELSE NoMessage
    ELSE IF b[1] = 4
    THEN LET h == take_array(Tail(b), HashLen)
             q == take_varint(h.rest)
             c == take_varint(q.rest)
         IN  IF h.ok /\ q.ok /\ c.ok
             THEN [ok |-> TRUE,
                   message |-> [type |-> "VerifyBlock", file_hash |-> h.val,
                                seq |-> q.val, checksum |-> c.val]]
             ELSE NoMessage
    ELSE NoMessage

from_bytes(dir, b) ==
    IF dir = "sender" THEN sender_from_bytes(b) ELSE receiver_from_bytes(b)

(***************************************************************************)
(* The framing codec (connection.rs).                                      *)
(***************************************************************************)
\* u8::is_ascii_whitespace
is_ascii_whitespace(c) == c \in {9, 10, 12, 13, 32}

RECURSIVE trim_ascii_start(_)
trim_ascii_start(b) ==
    IF b # <<>> /\ is_ascii_whitespace(b[1]) THEN trim_ascii_start(Tail(b)) ELSE b

RECURSIVE trim_ascii_end(_)
trim_ascii_end(b) ==
    IF b # <<>> /\ is_ascii_whitespace(b[Len(b)])
    THEN trim_ascii_end(SubSeq(b, 1, Len(b) - 1))
    ELSE b

trim_ascii(b) == trim_ascii_end(trim_ascii_start(b))

\* header_buffer.split(\r or \n).filter(non-empty).map(trim_ascii)
RECURSIVE header_lines(_, _)
header_lines(b, line) ==
    IF b = <<>>
    THEN (IF line = <<>> THEN <<>> ELSE <<trim_ascii(line)>>)
    ELSE IF b[1] \in {13, 10}
    THEN (IF line = <<>> THEN <<>> ELSE <<trim_ascii(line)>>) \o header_lines(Tail(b), <<>>)
    ELSE header_lines(Tail(b), Append(line, b[1]))

RECURSIVE decimal_value(_)
decimal_value(d) ==
    IF d = <<>> THEN 0 ELSE decimal_value(SubSeq(d, 1, Len(d) - 1)) * 10 + (d[Len(d)] - 48)

\* str::parse of an unsigned integer no greater than max: an optional '+',
\* then decimal digits only
parse_unsigned(b, max) ==
    LET digits == IF b # <<>> /\ b[1] = 43 THEN Tail(b) ELSE b
    IN  IF /\ digits # <<>>
           /\ Len(digits) <= 9
           /\ \A i \in DOMAIN digits : digits[i] \in 48..57
           /\ decimal_value(digits) <= max
        THEN [ok |-> TRUE, val |-> decimal_value(digits)]
        ELSE [ok |-> FALSE, val |-> 0]

\* parse_header_line: drop prefix_len bytes, trim, parse.  The prefix's text
\* is not looked at.
parse_header_line(line, prefix_len, max) ==
    IF Len(line) < prefix_len THEN [ok |-> FALSE, val |-> 0]
    ELSE parse_unsigned(trim_ascii(SubSeq(line, prefix_len + 1, Len(line))), max)

\* parse_all_headers: the first two lines are the version (u8) and the
\* length (usize); indexing them panics when the header has fewer than two
\* lines
parse_all_headers(header_buffer) ==
    LET lines == header_lines(header_buffer, <<>>)
    IN  IF Len(lines) < 2 THEN [kind |-> "panic", version |-> 0, length |-> 0]
        ELSE LET version == parse_header_line(lines[1], Len(VERSION_HEADER_PRIFIX), 255)
                 length == parse_header_line(lines[2], Len(LENGTH_HEADER_PREFIX), UsizeMax)
             IN  IF version.ok /\ length.ok
                 THEN [kind |-> "ok", version |-> version.val, length |-> length.val]
                 ELSE [kind |-> "InvalidMessageFormat", version |-> 0, length |-> 0]

\* a faulty scan start: the bytes before the new ones are not looked at again
test_crlf_from_idx_new_only(previous_total) == previous_total

\* where the scan for the header's end starts: previous_total.saturating_sub(3)
test_crlf_from_idx(previous_total) ==
    Max(previous_total - (2 * Len(MESSAGE_DELIMITER) - 1), 0)

\* 0-based index of the first "\r\n\r\n" window of buffer[from..], if any:
\* <<>> is None, <<i>> is Some(i)
header_end_index(buffer, from) ==
    LET hits == {i \in from..(Len(buffer) - 2 * Len(MESSAGE_DELIMITER)) :
                    SubSeq(buffer, i + 1, i + 2 * Len(MESSAGE_DELIMITER))
                        = MESSAGE_DELIMITER \o MESSAGE_DELIMITER}
    IN  IF hits = {} THEN <<>>
        ELSE <<CHOOSE i \in hits : \A j \in hits : i <= j>>

\* an Err(..) of read_next_payload
Err(kind) ==
    [kind |-> kind, message |-> [type |-> "none"], total_bytes_read |-> 0,
     next_payload_index |-> <<>>]

\* read_next_payload once the buffer holds expected_total_length bytes:
\* slice the payload (a slice that ends before it starts panics),
\* deserialize it, report the index of what follows it
payload_complete(dir, buffer, payload_start_index, expected_total_length) ==
    LET parsed == from_bytes(dir, SubSeq(buffer, payload_start_index + 1,
                                         expected_total_length))
    IN  IF payload_start_index > expected_total_length THEN Err("panic")
        ELSE IF ~parsed.ok THEN Err("PayloadParseError")
        ELSE [kind |-> "ok",
              message |-> parsed.message,
              total_bytes_read |-> Len(buffer),
              next_payload_index |->
                  IF Len(buffer) > expected_total_length
                  THEN <<expected_total_length>> ELSE <<>>]

(***************************************************************************)
(* FrameSpec: a writer puts one or more frames back-to-back on a stream; a *)
(* reader calls read_next_payload once per frame, the way                  *)
(* handle_connection and read_verify_response do, carrying the leftover.   *)
(***************************************************************************)
\* a fingerprint that contains a line break
FrameHash == [i \in 1..HashLen |-> IF i = 1 THEN 13 ELSE 10]

FrameMessages(dir) ==
    IF dir = "sender"
    THEN {[type |-> "Handshake", file_hash |-> FrameHash, total_size |-> 300,
           concurrency |-> 8, file_name |-> <<102>>, block_size |-> 4],
          [type |-> "Data", seq |-> 0, checksum |-> 65000, file_hash |-> FrameHash,
           compressed |-> FALSE, data |-> <<13, 10, 13, 10>>],
          [type |-> "Data", seq |-> 300, checksum |-> 5, file_hash |-> FrameHash,
           compressed |-> TRUE, data |-> <<>>],
          [type |-> "Error", code |-> 500, message |-> <<101>>],
          [type |-> "VerifyResponse", file_hash |-> FrameHash, seq |-> 1, valid |-> TRUE],
          [type |-> "VerifyResponse", file_hash |-> FrameHash, seq |-> 200, valid |-> FALSE]}
    ELSE {[type |-> "Request", file_hash |-> FrameHash, seq |-> 0],
          [type |-> "Request", file_hash |-> FrameHash, seq |-> 300],
          [type |-> "Progress", file_hash |-> FrameHash, bytes_received |-> 1000],
          [type |-> "TransferComplete", file_hash |-> FrameHash],
          [type |-> "Error", code |-> 42, message |-> <<>>],
          [type |-> "VerifyBlock", file_hash |-> FrameHash, seq |-> 2, checksum |-> 40000]}

\* the frame of message m
Frame(dir, m) == attach_headers(to_bytes(dir, m))

RECURSIVE Frames(_, _)
Frames(dir, ms) ==
    IF ms = <<>> THEN <<>> ELSE Frame(dir, Head(ms)) \o Frames(dir, Tail(ms))

FrameInit ==
    /\ TransferOff
    /\ SplitIdle
    /\ CallIdle
    /\ BlockIdle
    /\ CliIdle
    /\ \E dir \in {"sender", "receiver"}, n \in 1..MaxFrames :
          \E ms \in [1..n -> FrameMessages(dir)] :
             \E closed \in BOOLEAN, buffer_len \in {SmallBuffer, LargeBuffer} :
                fr = [phase |-> "header",
                      dir |-> dir,
                      sent |-> ms,
                      stream |-> Frames(dir, ms),
                      closed |-> closed,
                      buffer_len |-> buffer_len,
                      buffer |-> <<>>,
                      filled_len |-> 0,
                      call |-> 1,
                      bytewise |-> TRUE,
                      payload_start_index |-> 0,
                      expected_total_length |-> 0,
                      result |-> Err("none")]

\* read_next_payload from expected_total_length on, the buffer holding what
\* the header loop read: the size check, then the payload loop, which is not
\* entered when the buffer already holds the whole frame
length_known(read, payload_start_index, expected_total_length) ==
    IF expected_total_length > read.buffer_len
    THEN [read EXCEPT !.phase = "returned",
                      !.result = Err("BufferSmallerThanExpected")]
    ELSE IF Len(read.buffer) >= expected_total_length
    THEN [read EXCEPT !.phase = "returned",
                      !.payload_start_index = payload_start_index,
                      !.expected_total_length = expected_total_length,
                      !.result = payload_complete(read.dir, read.buffer,
                                     payload_start_index, expected_total_length)]
    ELSE [read EXCEPT !.phase = "payload",
                      !.payload_start_index = payload_start_index,
                      !.expected_total_length = expected_total_length]

\* what one stream.read may give when `available` bytes can be taken
ReadSizes(available) ==
    {k \in 1..available : k <= MaxChunk \/ k = available}

\* the call returns r
frame_returns(r) ==
    [fr EXCEPT !.phase = "returned", !.result = r]

\* one turn of the header loop over a stream that has bytes: the buffer is
\* full (give up), or stream.read gives k bytes, the scan looks for the end
\* of the header, and with it the headers are parsed and checked; when the
\* buffer already holds the whole frame the call returns without more reads.
\* payload_start_index + length beyond usize::MAX panics in a build with
\* overflow checks and wraps around in one without.
read_header(k) ==
    /\ fr.phase = "header"
    /\ fr.stream # <<>>
    /\ IF Len(fr.buffer) = fr.buffer_len THEN k = 1
       ELSE k \in ReadSizes(Min(Len(fr.stream), fr.buffer_len - Len(fr.buffer)))
    /\ IF Len(fr.buffer) = fr.buffer_len
       THEN fr' = frame_returns(Err("BufferSmallerThanExpected"))
       ELSE
         LET previous_total == Len(fr.buffer)
             buffer == fr.buffer \o SubSeq(fr.stream, 1, k)
             header_end == header_end_index(buffer, test_crlf_from_idx(previous_total))
             read == [fr EXCEPT !.buffer = buffer,
                                !.stream = SubSeq(fr.stream, k + 1, Len(fr.stream)),
                                !.bytewise = fr.bytewise /\ k = 1]
         IN  IF header_end = <<>> THEN fr' = read
             ELSE
               LET headers == parse_all_headers(SubSeq(buffer, 1, header_end[1]))
                   payload_start_index == header_end[1] + 2 * Len(MESSAGE_DELIMITER)
                   sum == payload_start_index + headers.length
               IN  IF headers.kind # "ok"
                   THEN fr' = [read EXCEPT !.phase = "returned",
                                           !.result = Err(headers.kind)]
                   ELSE IF headers.version # CURRENT_PROTOCOL_VERSION
                   THEN fr' = [read EXCEPT !.phase = "returned",
                                           !.result = Err("UnsupportedProtocolVersion")]
                   ELSE IF sum > UsizeMax
                   THEN \E overflow_checks \in BOOLEAN :
                           fr' = IF overflow_checks
                                 THEN [read EXCEPT !.phase = "returned",
                                                   !.result = Err("panic")]
                                 ELSE length_known(read, payload_start_index,
                                                   sum % (UsizeMax + 1))
                   ELSE fr' = length_known(read, payload_start_index, sum)
    /\ UNCHANGED <<pvars, sp, hr, fb, cl>>

\* the header loop on a stream with nothing more to give: a full buffer is
\* reported before any read; else, at the stream's end, stream.read gives 0
\* bytes and the call returns UnexpectedEof
read_header_eof ==
    /\ fr.phase = "header"
    /\ fr.stream = <<>>
    /\ fr.closed \/ Len(fr.buffer) = fr.buffer_len
    /\ fr' = frame_returns(Err(IF Len(fr.buffer) = fr.buffer_len
                               THEN "BufferSmallerThanExpected"
                               ELSE "UnexpectedEof"))
    /\ UNCHANGED <<pvars, sp, hr, fb, cl>>

\* one turn of the payload loop: stream.read gives k bytes; with the whole
\* frame in the buffer the call returns
read_payload(k) ==
    /\ fr.phase = "payload"
    /\ k \in ReadSizes(Min(Len(fr.stream), fr.buffer_len - Len(fr.buffer)))
    /\ LET buffer == fr.buffer \o SubSeq(fr.stream, 1, k)
           read == [fr EXCEPT !.buffer = buffer,
                              !.stream = SubSeq(fr.stream, k + 1, Len(fr.stream)),
                              !.bytewise = fr.bytewise /\ k = 1]
       IN  IF Len(buffer) >= fr.expected_total_length
           THEN fr' = [read EXCEPT
                          !.phase = "returned",
                          !.result = payload_complete(fr.dir, buffer,
                                         fr.payload_start_index,
                                         fr.expected_total_length)]
           ELSE fr' = read
    /\ UNCHANGED <<pvars, sp, hr, fb, cl>>

\* the caller's loop (handle_connection, read_verify_response): move what
\* follows the message to the start of the buffer and call again with its
\* length as filled_len
read_next_message ==
    /\ fr.phase = "returned"
    /\ fr.result.kind = "ok"
    /\ fr.call < Len(fr.sent)
    /\ LET next_idx == fr.result.next_payload_index
           leftover == IF next_idx = <<>> THEN <<>>
                       ELSE SubSeq(fr.buffer, next_idx[1] + 1, fr.result.total_bytes_read)
       IN  fr' = [fr EXCEPT !.phase = "header",
                            !.buffer = leftover,
                            !.filled_len = Len(leftover),
                            !.call = fr.call + 1,
                            !.bytewise = TRUE,
                            !.payload_start_index = 0,
                            !.expected_total_length = 0,
                            !.result = Err("none")]
    /\ UNCHANGED <<pvars, sp, hr, fb, cl>>

FrameNext ==
    \/ \E k \in 1..(MaxFrames * LargeBuffer) : read_header(k)
    \/ read_header_eof
    \/ \E k \in 1..LargeBuffer : read_payload(k)
    \/ read_next_message

FrameSpec == FrameInit /\ [][FrameNext]_vars

\* the frame of the k-th message written fits the scratch buffer
FrameFits(k) == Len(Frame(fr.dir, fr.sent[k])) <= fr.buffer_len

\* C8: Frame round-trip.  A read_next_payload call on an empty buffer, over
\* a stream that starts with the frame of a message M that fits the buffer,
\* returns M, equal in every field, however the stream cuts the frame into
\* chunks.
C8_FrameRoundTrip ==
    (fr.phase = "returned" /\ fr.call = 1 /\ FrameFits(1))
        => (fr.result.kind = "ok" /\ fr.result.message = fr.sent[1])

\* C8 witness: a Data frame whose payload contains "\r\n\r\n", delivered one
\* byte per read, has been returned
C8_Witness ==
    /\ fr.phase = "returned"
    /\ fr.call = 1
    /\ fr.bytewise
    /\ fr.result.kind = "ok"
    /\ fr.result.message.type = "Data"
    /\ fr.result.message.data = <<13, 10, 13, 10>>

\* C9: Pipelining.  When the leftover handed to the second call already
\* holds the whole second frame, the second call returns the second message
\* intact.
C9_Pipelining ==
    (/\ fr.phase = "returned"
     /\ fr.call = 2
     /\ fr.filled_len >= Len(Frame(fr.dir, fr.sent[2])))
        => (fr.result.kind = "ok" /\ fr.result.message = fr.sent[2])

(***************************************************************************)
(* StreamSpec: one call of read_next_payload on an empty buffer over a     *)
(* stream that holds a frame cut short, a header region that is not the    *)
(* two header lines, or a length line that declares any length.            *)
(***************************************************************************)
VersionLine(v) == VERSION_HEADER_PRIFIX \o to_decimal(v)
LengthLine(n) == LENGTH_HEADER_PREFIX \o to_decimal(n)

\* what attach_headers writes before the blank line, for version v, length n
HeaderRegion(v, n) == VersionLine(v) \o MESSAGE_DELIMITER \o LengthLine(n)

\* the payload that follows the header on these streams: a Request
StreamPayload ==
    to_bytes("receiver", [type |-> "Request", file_hash |-> FrameHash, seq |-> 0])

\* bytes in front of the payload when the length line has `digits` digits
PayloadStart(digits) ==
    Len(VersionLine(CURRENT_PROTOCOL_VERSION)) + Len(MESSAGE_DELIMITER)
        + Len(LENGTH_HEADER_PREFIX) + digits + 2 * Len(MESSAGE_DELIMITER)

\* the lengths a length line declares: none, the payload's, the largest that
\* fits the small buffer and the next, the large buffer's size, the largest
\* whose sum with the header is a usize and the next, and usize::MAX
DeclaredLengths ==
    {0, Len(StreamPayload),
     SmallBuffer - PayloadStart(1), SmallBuffer - PayloadStart(1) + 1,
     LargeBuffer,
     UsizeMax - PayloadStart(Len(to_decimal(UsizeMax))),
     UsizeMax - PayloadStart(Len(to_decimal(UsizeMax))) + 1,
     UsizeMax}

\* a well-formed version line followed by a well-formed length line
WellFormedRegions ==
    {HeaderRegion(v, n) : v \in 0..255, n \in DeclaredLengths}

\* header regions that are not: no line, one line, a length line shorter
\* than its prefix, values that are not numbers of the type, the two lines
\* in the wrong order
MalformedRegions ==
    {<<>>,
     VersionLine(1),
     VersionLine(1) \o MESSAGE_DELIMITER \o SubSeq(LENGTH_HEADER_PREFIX, 1, 3),
     VersionLine(1) \o MESSAGE_DELIMITER \o LENGTH_HEADER_PREFIX,
     VERSION_HEADER_PRIFIX \o <<120>> \o MESSAGE_DELIMITER \o LengthLine(3),
     VersionLine(1) \o MESSAGE_DELIMITER \o LENGTH_HEADER_PREFIX \o <<122>>,
     VersionLine(1) \o MESSAGE_DELIMITER \o LENGTH_HEADER_PREFIX \o <<45, 49>>,
     VersionLine(256) \o MESSAGE_DELIMITER \o LengthLine(0),
     VersionLine(1) \o MESSAGE_DELIMITER \o LengthLine(UsizeMax + 1),
     LengthLine(1) \o MESSAGE_DELIMITER \o VersionLine(0)}

\* the streams: every prefix of a good frame; every malformed region with
\* its blank line, alone or before a payload; every declared length, as
\* version 1 or 2, before the payload
StreamInputs ==
    LET blank == MESSAGE_DELIMITER \o MESSAGE_DELIMITER
        good == attach_headers(StreamPayload)
    IN  {[region |-> HeaderRegion(CURRENT_PROTOCOL_VERSION, Len(StreamPayload)),
          bytes |-> SubSeq(good, 1, k)] : k \in 0..Len(good)}
          \cup {[region |-> r, bytes |-> r \o blank \o payload] :
                   r \in MalformedRegions, payload \in {<<>>, StreamPayload}}
          \cup {[region |-> HeaderRegion(v, n),
                 bytes |-> HeaderRegion(v, n) \o blank \o StreamPayload] :
                   v \in {CURRENT_PROTOCOL_VERSION, CURRENT_PROTOCOL_VERSION + 1},
                   n \in DeclaredLengths}

StreamInit ==
    /\ TransferOff
    /\ SplitIdle
    /\ CallIdle
    /\ BlockIdle
    /\ CliIdle
    /\ \E input \in StreamInputs, closed \in BOOLEAN,
          buffer_len \in {SmallBuffer, LargeBuffer} :
          fr = [phase |-> "header",
                dir |-> "receiver",
                sent |-> <<>>,
                stream |-> input.bytes,
                closed |-> closed,
                buffer_len |-> buffer_len,
                buffer |-> <<>>,
                filled_len |-> 0,
                call |-> 1,
                bytewise |-> TRUE,
                payload_start_index |-> 0,
                expected_total_length |-> 0,
                result |-> Err("none"),
                region |-> input.region,
                written |-> Len(input.bytes),
                zero_reads |-> 0]

\* one turn of the payload loop at the end of a closed stream: stream.read
\* gives 0 bytes, total_bytes_read stays below expected_total_length and the
\* loop goes round again
read_payload_eof ==
    /\ fr.phase = "payload"
    /\ fr.stream = <<>>
    /\ fr.closed
    /\ fr.zero_reads < MaxZeroReads
    /\ fr' = [fr EXCEPT !.zero_reads = @ + 1]
    /\ UNCHANGED <<pvars, sp, hr, fb, cl>>

StreamNext ==
    \/ \E k \in 1..(MaxFrames * LargeBuffer) : read_header(k)
    \/ read_header_eof
    \/ \E k \in 1..LargeBuffer : read_payload(k)
    \/ read_payload_eof

StreamSpec == StreamInit /\ [][StreamNext]_vars

\* the stream was written with its whole header region and blank line
HeaderWritten ==
    fr.written >= Len(fr.region) + 2 * Len(MESSAGE_DELIMITER)

\* the length the stream's length line declares
DeclaredLength ==
    CHOOSE n \in DeclaredLengths :
        fr.region = HeaderRegion(CURRENT_PROTOCOL_VERSION, n)

\* C21: A call of read_next_payload does not go on after a read that found
\* the closed stream at its end: in the header or in the payload, a read of
\* zero bytes ends the call.
C21_ClosedStreamTerminates ==
    fr.phase # "returned" => fr.zero_reads = 0

\* C22: Malformed headers are reported as a value.  When the header region
\* on the stream is not a well-formed version line followed by a well-formed
\* length line, the call returns InvalidMessageFormat.
C22_MalformedHeaders ==
    (/\ fr.phase = "returned"
     /\ HeaderWritten
     /\ fr.region \notin WellFormedRegions)
        => fr.result.kind = "InvalidMessageFormat"

\* C23: BufferTooSmall.  When the length line of a version-1 header declares
\* a usize n and header length + 4 + n exceeds the buffer's size, the call
\* returns BufferSmallerThanExpected and has not entered the payload loop.
C23_BufferTooSmall ==
    (/\ fr.phase = "returned"
     /\ HeaderWritten
     /\ \E n \in DeclaredLengths :
           fr.region = HeaderRegion(CURRENT_PROTOCOL_VERSION, n)
     /\ Len(fr.region) + 2 * Len(MESSAGE_DELIMITER) + DeclaredLength > fr.buffer_len)
        => (/\ fr.result.kind = "BufferSmallerThanExpected"
            /\ fr.expected_total_length = 0)

(***************************************************************************)
(* send_file and its handlers with both kinds of thread scheduled: the     *)
(* accept loop and every spawned handler take a step when they can.  The   *)
(* clients are those of HandlerSpec with shorter scripts.                  *)
(***************************************************************************)
\* the thread of send_file in and after its accept loop
AcceptLoopStep ==
    \/ accept_loop_check
    \/ accept_and_spawn
    \/ accept_and_drop
    \/ accept_would_block
    \/ send_file_return

\* the thread spawned for connection w
HandlerStep(w) ==
    \/ handle_data_request(w)
    \/ handle_verify_block(w)
    \/ handle_progress(w)
    \/ handle_transfer_complete(w)
    \/ handle_error(w)
    \/ handle_stream_closed(w)
    \/ thread_release(w)
    \/ thread_signal(w)

ShutdownInit == HandlerStart(ShortScript)

ShutdownSpec ==
    /\ ShutdownInit
    /\ [][HandlerNext]_vars
    /\ WF_vars(AcceptLoopStep)
    /\ \A w \in Workers : WF_vars(HandlerStep(w))

\* the handler threads that have not ended
Outstanding == {w \in Workers : hpc[w] \notin {"none", "done"}}

\* C34: Sender shutdown.  Once a handler has returned true on a valid
\* TransferComplete, send_file leaves the accept loop and returns; it leaves
\* the loop only at the loop's top with the flag set and accepts nothing
\* after; a running handler is ended by nothing but its own reading (of a
\* message, or of the end of a stream its peer closed); send_file returns
\* only when no handler is outstanding.
C34_ShutdownLiveness ==
    /\ (\E w \in Workers : hpc[w] = "ret_true") ~> (spc = "returned")
    /\ [][/\ (spc' = "join" /\ spc # "join") =>
                 (spc = "loop_top" /\ transfer_complete)
          /\ spc \in {"join", "returned"} =>
                 (/\ \A w \in Workers : hpc[w] = "none" => hpc'[w] = "none"
                  /\ spc' \in {"join", "returned"})
          /\ \A w \in Workers :
                 (hpc[w] = "run" /\ hpc'[w] # "run") =>
                     \/ HandlerReads(w)
                     \/ (c2s[w] = <<>> /\ worker_closed(w))
          /\ (spc' = "returned" /\ spc # "returned") => Outstanding = {}]_vars

\* C34 witness: send_file has returned after a valid TransferComplete, and
\* another handler was still running when the loop was left
C34_Witness ==
    /\ spc = "returned"
    /\ transfer_complete
    /\ \E w, v \in Workers :
          /\ w # v
          /\ hpc[w] = "done"
          /\ hpc[v] = "done"
          /\ cfg.scripts[w] # <<>>
          /\ cfg.scripts[w][1].type = "TransferComplete"
          /\ cfg.scripts[w][1].file_hash = expected_hash

(***************************************************************************)
(* A ConnectionHandler built by hand, as the tests of send.rs build it,    *)
(* and the calls handle_connection's loop makes on it: each call gets one  *)
(* message and a writer that starts empty; the loop ends with the first    *)
(* call that does not tell it to go on.                                    *)
(***************************************************************************)
\* the handlers: a file, its fingerprint, a compression decision
Handlers ==
    {[phase |-> "call",
      file |-> SourceFile(size),
      expected_hash |-> get_file_blake3_hash(SourceFile(size)),
      compression_built |-> enabled,
      compression_enabled |-> enabled,
      calls |-> 0] :
        size \in Sizes, enabled \in {"None", "SomeTrue", "SomeFalse"}}

\* the I/O of one call: all of it works, or the read of the block fails, or
\* the encoder fails, or the write to the writer fails
IoOutcomes ==
    {NoFault,
     [NoFault EXCEPT !.read_ok = FALSE],
     [NoFault EXCEPT !.encode_ok = FALSE],
     [NoFault EXCEPT !.write_ok = FALSE]}

\* the block indexes asked for: those of the largest file and one past it
CallSeqs == 0..MaxBlocks

\* the fingerprints a message can carry: the handler's or another
CallHashes == {hr.expected_hash, WrongHash(hr.expected_hash)}

RequestInit ==
    /\ TransferOff
    /\ FrameIdle
    /\ SplitIdle
    /\ BlockIdle
    /\ CliIdle
    /\ hr \in Handlers

\* handle_connection's loop is at read_next_payload
CanCall ==
    /\ hr.phase \in {"call", "returned"}
    /\ hr.phase = "returned" => hr.goes_on
    /\ hr.calls < MaxCalls

\* the handler after a call on message msg under I/O io
Returned(msg, io, result, goes_on, attempted, written, enabled) ==
    [phase |-> "returned",
     file |-> hr.file,
     expected_hash |-> hr.expected_hash,
     compression_built |-> hr.compression_built,
     compression_before |-> hr.compression_enabled,
     compression_enabled |-> enabled,
     calls |-> hr.calls + 1,
     msg |-> msg,
     io |-> io,
     result |-> result,
     goes_on |-> goes_on,
     attempted |-> attempted,
     writer |-> written]

\* handler.handle_data_request(&req, &mut cursor) returns
handle_data_request_call ==
    /\ CanCall
    /\ \E h \in CallHashes, seq \in CallSeqs, io \in IoOutcomes :
          LET req == [type |-> "Request", file_hash |-> h, seq |-> seq]
              call == handle_data_request_result(req, hr.expected_hash,
                                                 hr.compression_enabled,
                                                 hr.file, io)
          IN  hr' = Returned(req, io, call.result, call.result = Ok(TRUE),
                             call.attempted, call.written, call.enabled)
    /\ UNCHANGED <<pvars, fr, sp, fb, cl>>

\* handler.handle_verify_block(&verify, &mut cursor) returns; the checksum
\* sent is the block's or another; the encoder is not run
handle_verify_block_call ==
    /\ CanCall
    /\ \E h \in CallHashes, seq \in CallSeqs, right \in BOOLEAN,
          io \in {o \in IoOutcomes : o.encode_ok} :
          LET sum == checksum(read_file_block(hr.file, seq, BlockSize))
                         + (IF right THEN 0 ELSE 1)
              verify == [type |-> "VerifyBlock", file_hash |-> h, seq |-> seq,
                         checksum |-> sum]
              call == handle_verify_block_result(verify, hr.expected_hash,
                                                 hr.file, io)
          IN  hr' = Returned(verify, io, call.result, call.result = Ok(TRUE),
                             call.attempted, call.written,
                             hr.compression_enabled)
    /\ UNCHANGED <<pvars, fr, sp, fb, cl>>

\* handler.handle_progress(&prog) returns a bool and writes nothing
handle_progress_call ==
    /\ CanCall
    /\ \E h \in CallHashes :
          LET prog == [type |-> "Progress", file_hash |-> h, bytes_received |-> 0]
              go == hash_matches(h, hr.expected_hash)
          IN  hr' = Returned(prog, NoFault, [kind |-> "bool", value |-> go],
                             go, <<>>, <<>>, hr.compression_enabled)
    /\ UNCHANGED <<pvars, fr, sp, fb, cl>>

RequestNext ==
    \/ handle_data_request_call
    \/ handle_verify_block_call
    \/ handle_progress_call

RequestSpec == RequestInit /\ [][RequestNext]_vars

\* C30: handle_data_request called with a Request whose file_hash is not the
\* handler's fingerprint returns an Err and leaves the writer empty.
C30_MismatchedHashIsError ==
    (/\ hr.phase = "returned"
     /\ hr.msg.type = "Request"
     /\ hr.msg.file_hash # hr.expected_hash) =>
        /\ hr.result.kind = "Err"
        /\ hr.writer = <<>>

\* the block a returned call asked for, and whether gzip makes it shorter
AskedBlock == read_file_block(hr.file, hr.msg.seq, BlockSize)
Shrinks(data) == Len(GzEncoder(data)) < Len(data)

\* the returned call was a Request with the handler's fingerprint whose
\* block was read
ServedRequest ==
    /\ hr.msg.type = "Request"
    /\ hr.msg.file_hash = hr.expected_hash
    /\ hr.io.read_ok

\* C31: compression decision state machine.  A call changes the decision
\* only if it found it undecided and is a Request with the handler's
\* fingerprint whose block was read; it then leaves it on if the encoder
\* worked and its output is strictly shorter than the raw block, and off
\* otherwise (a failed encoder, an empty block); a decision once taken is
\* what every later call leaves; a VerifyBlock, a Progress and a message with
\* another fingerprint leave the decision as it was.
C31_CompressionDecision ==
    hr.phase = "returned" =>
        LET before == hr.compression_before
            after == hr.compression_enabled
        IN  /\ before # "None" => after = before
            /\ (before = "None" /\ ServedRequest) =>
                  after = IF hr.io.encode_ok /\ AskedBlock # <<>> /\ Shrinks(AskedBlock)
                          THEN "SomeTrue" ELSE "SomeFalse"
            /\ ~ServedRequest => after = before

\* C31 witness: a handler built undecided was set on by its first call and
\* is still on after a second Request whose block gzip does not shorten
C31_Witness ==
    /\ hr.phase = "returned"
    /\ hr.compression_built = "None"
    /\ hr.calls = 2
    /\ hr.compression_before = "SomeTrue"
    /\ ServedRequest
    /\ AskedBlock # <<>>
    /\ ~Shrinks(AskedBlock)
    /\ hr.compression_enabled = "SomeTrue"

\* C32: when the decision is off, a Request is answered by a Data with
\* compressed false and the raw bytes of the block, also for a block that
\* gzip would shorten, and the decision is still off after the call.
C32_CompressionDisabled ==
    (/\ hr.phase = "returned"
     /\ hr.compression_before = "SomeFalse"
     /\ hr.msg.type = "Request") =>
        /\ hr.compression_enabled = "SomeFalse"
        /\ \A i \in DOMAIN hr.writer :
              hr.writer[i].type = "Data" =>
                  /\ ~hr.writer[i].compressed
                  /\ hr.writer[i].data = AskedBlock
        /\ (ServedRequest /\ hr.io.write_ok) =>
              (Len(hr.writer) = 1 /\ hr.writer[1].type = "Data")

\* C32 witness: a handler with the decision off has answered a Request for a
\* block that gzip shortens
C32_Witness ==
    /\ hr.phase = "returned"
    /\ hr.compression_before = "SomeFalse"
    /\ ServedRequest
    /\ Shrinks(AskedBlock)
    /\ Len(hr.writer) = 1
    /\ hr.writer[1].type = "Data"
    /\ hr.writer[1].data = AskedBlock

\* C33: Sender failure reply.  When the handler of a Request with its
\* fingerprint fails to read the block, or fails to write the reply, it
\* hands an Error with code 500 to the writer and the connection's loop does
\* not go on to another message.
C33_FailureReply ==
    (/\ hr.phase = "returned"
     /\ hr.msg.type = "Request"
     /\ hr.msg.file_hash = hr.expected_hash
     /\ (~hr.io.read_ok \/ ~hr.io.write_ok)) =>
        /\ \E i \in DOMAIN hr.attempted : hr.attempted[i] = SenderError
        /\ ~hr.goes_on

\* C37: the block a Request is answered with is the bytes of the file at
\* offsets seq*B .. min((seq+1)*B, size) - 1: B bytes for a block that lies
\* wholly in the file, the shorter rest for the last one, and none when
\* seq*B >= size, and then the reply is a Data with empty data (not
\* compressed) and the call returns Ok(true), not an Error.
C37_ReadFileBlock ==
    (hr.phase = "returned" /\ ServedRequest /\ hr.io.write_ok) =>
        LET size == Len(hr.file)
            lo == hr.msg.seq * BlockSize
            hi == Min((hr.msg.seq + 1) * BlockSize, size)
            reply == hr.writer[1]
            raw == IF reply.compressed THEN decompress_gzip(reply.data).data
                   ELSE reply.data
        IN  /\ Len(hr.writer) = 1
            /\ reply.type = "Data"
            /\ reply.seq = hr.msg.seq
            /\ hr.result = Ok(TRUE)
            /\ reply.compressed => decompress_gzip(reply.data).ok
            /\ Len(raw) = Max(hi - lo, 0)
            /\ \A k \in 1..Len(raw) : raw[k] = hr.file[lo + k]
            /\ (hr.msg.seq + 1) * BlockSize <= size => Len(raw) = BlockSize
            /\ lo >= size => (reply.data = <<>> /\ ~reply.compressed)

\* C37 witness: a Request for a block past the end of a file that ends in a
\* short block was answered with an empty Data
C37_Witness ==
    /\ hr.phase = "returned"
    /\ ServedRequest
    /\ Len(hr.file) % BlockSize # 0
    /\ hr.msg.seq * BlockSize >= Len(hr.file)
    /\ hr.writer = <<[type |-> "Data", seq |-> hr.msg.seq,
                      checksum |-> checksum(<<>>),
                      file_hash |-> hr.expected_hash,
                      compressed |-> FALSE, data |-> <<>>]>>
    /\ hr.result = Ok(TRUE)

(***************************************************************************)
(* One open file of a pre-allocated length and the calls of               *)
(* write_file_block and read_file_block on it, as the tests of             *)
(* file/utils.rs make them.                                                *)
(***************************************************************************)
\* what a caller writes as one block: 0..BlockSize bytes of one letter
BlockData ==
    {[k \in 1..len |-> letter] : len \in 0..BlockSize, letter \in {65, 66}}

\* the block indexes used: those of the largest file and one past it
FileSeqs == 0..MaxBlocks

FileInit ==
    /\ TransferOff
    /\ FrameIdle
    /\ SplitIdle
    /\ CallIdle
    /\ CliIdle
    /\ \E size \in Sizes :
          fb = [phase |-> "open", file |-> SourceFile(size), calls |-> 0]

\* write_file_block(&mut file, seq, B, data) returns Ok
write_file_block_call ==
    /\ fb.phase # "off"
    /\ fb.calls < MaxFileCalls
    /\ \E seq \in FileSeqs, data \in BlockData :
          fb' = [phase |-> "written",
                 before |-> fb.file,
                 file |-> write_file_block(fb.file, seq, BlockSize, data),
                 seq |-> seq,
                 data |-> data,
                 calls |-> fb.calls + 1]
    /\ UNCHANGED <<pvars, fr, sp, hr, cl>>

\* read_file_block(&mut file, seq, B) returns Ok(block); what the last
\* write did stays on record
read_file_block_call ==
    /\ fb.phase # "off"
    /\ fb.calls < MaxFileCalls
    /\ \E seq \in FileSeqs :
          fb' = [phase |-> "read",
                 file |-> fb.file,
                 seq |-> seq,
                 block |-> read_file_block(fb.file, seq, BlockSize),
                 last_write |-> IF fb.phase = "written"
                                THEN <<[before |-> fb.before, seq |-> fb.seq,
                                        data |-> fb.data]>>
                                ELSE <<>>,
                 calls |-> fb.calls + 1]
    /\ UNCHANGED <<pvars, fr, sp, hr, cl>>

FileNext ==
    \/ write_file_block_call
    \/ read_file_block_call

FileSpec == FileInit /\ [][FileNext]_vars

\* C36: after write_file_block(file, seq, B, data) the file holds data at
\* offsets seq*B .. seq*B + len(data) - 1; when that range lies within the
\* length the file had, every other byte and the length are as before
\* (nothing is padded up to B); read_file_block(file, seq, B) right after
\* it returns data followed by the bytes the file had from seq*B + len(data)
\* up to the end of the block or of the file.
C36_WriteFileBlock ==
    /\ fb.phase = "written" =>
          LET offset == fb.seq * BlockSize
              len == Len(fb.data)
          IN  /\ \A k \in 1..len : fb.file[offset + k] = fb.data[k]
              /\ offset + len <= Len(fb.before) =>
                    /\ Len(fb.file) = Len(fb.before)
                    /\ \A k \in 1..Len(fb.before) :
                          (k <= offset \/ k > offset + len) =>
                              fb.file[k] = fb.before[k]
    /\ (fb.phase = "read" /\ fb.last_write # <<>>) =>
          LET w == fb.last_write[1]
              offset == w.seq * BlockSize
              len == Len(w.data)
          IN  (fb.seq = w.seq /\ offset + len <= Len(w.before)) =>
                  fb.block = w.data \o SubSeq(w.before, offset + len + 1,
                                                Min(offset + BlockSize,
                                                    Len(w.before)))

\* C36 witness: a write of fewer than B bytes into an interior block was
\* followed by a read of that block, which ends in bytes that were there
\* before
C36_Witness ==
    /\ fb.phase = "read"
    /\ fb.last_write # <<>>
    /\ fb.seq = fb.last_write[1].seq
    /\ Len(fb.last_write[1].data) \in 1..(BlockSize - 1)
    /\ (fb.seq + 1) * BlockSize < Len(fb.last_write[1].before)
    /\ Len(fb.block) = BlockSize
    /\ fb.block[BlockSize] = fb.last_write[1].before[(fb.seq + 1) * BlockSize]

(***************************************************************************)
(* main: the parsed command line, the values main hands to send_file and   *)
(* receive_file, and the first division each of them reaches.              *)
(***************************************************************************)
\* Option<T>: None is <<>>, Some(v) is <<v>>
unwrap_or(option, default) == IF option = <<>> THEN default ELSE option[1]

\* get_concurrency: the requested value, or min(available, 16) when none is
\* given, capped at min(available, 16)
get_concurrency(requested, available) ==
    LET max_concurrency == Min(available, 16)
        concurrency == unwrap_or(requested, max_concurrency)
        effective == Min(concurrency, max_concurrency)
    IN  effective

\* main, Commands::Send: the block size handed to send_file
send_block_size(block_size) ==
    Min(unwrap_or(block_size, 1024 * 1024), MAX_BLOCK_SIZE)

\* what available_parallelism can give (a NonZero value)
AvailableParallelism == {1, 2, 16, 17}

\* --concurrency: absent, or a u16
ConcurrencyArgs == {<<>>} \cup {<<c>> : c \in 0..MaxConcurrencyArg}

\* --block-size: absent, or a u32
BlockSizeArgs ==
    {<<>>} \cup {<<b>> : b \in {0, 1, BlockSize, 1024 * 1024, MAX_BLOCK_SIZE,
                                MAX_BLOCK_SIZE + 1}}

\* Cli::parse has returned
CliInit ==
    /\ TransferOff
    /\ FrameIdle
    /\ SplitIdle
    /\ CallIdle
    /\ BlockIdle
    /\ cl \in {[phase |-> "parsed", command |-> "Send", block_size |-> b] :
                  b \in BlockSizeArgs}
          \cup {[phase |-> "parsed", command |-> "Receive",
                 concurrency |-> c, available |-> a] :
                  c \in ConcurrencyArgs, a \in AvailableParallelism}

\* main, Commands::Send: send_file is called with the block size
main_send ==
    /\ cl.phase = "parsed"
    /\ cl.command = "Send"
    /\ cl' = [phase |-> "send_file", command |-> "Send",
              block_size |-> send_block_size(cl.block_size)]
    /\ UNCHANGED <<pvars, fr, sp, hr, fb>>

\* receive_file on the Handshake send_file sent with that block size:
\* total_size.div_ceil(block_size), which panics on a zero divisor
receive_total_blocks ==
    /\ cl.phase = "send_file"
    /\ \E total_size \in Sizes :
          cl' = IF cl.block_size = 0
                THEN [phase |-> "panic", command |-> "Send",
                      block_size |-> cl.block_size, total_size |-> total_size]
                ELSE [phase |-> "total_blocks", command |-> "Send",
                      block_size |-> cl.block_size, total_size |-> total_size,
                      total_blocks |-> div_ceil(total_size, cl.block_size)]
    /\ UNCHANGED <<pvars, fr, sp, hr, fb>>

\* main, Commands::Receive: receive_file is called with the concurrency
main_receive ==
    /\ cl.phase = "parsed"
    /\ cl.command = "Receive"
    /\ cl' = [phase |-> "receive_file", command |-> "Receive",
              concurrency |-> get_concurrency(cl.concurrency, cl.available)]
    /\ UNCHANGED <<pvars, fr, sp, hr, fb>>

\* receive_file: split_blocks_into_ranges(total_blocks, concurrency), whose
\* total_blocks / concurrency panics on a zero divisor
receive_split ==
    /\ cl.phase = "receive_file"
    /\ \E total_blocks \in 0..MaxSplitBlocks :
          cl' = IF cl.concurrency = 0
                THEN [phase |-> "panic", command |-> "Receive",
                      concurrency |-> cl.concurrency,
                      total_blocks |-> total_blocks]
                ELSE [phase |-> "ranges", command |-> "Receive",
                      concurrency |-> cl.concurrency,
                      total_blocks |-> total_blocks,
                      ranges |-> split_blocks_into_ranges(total_blocks,
                                                          cl.concurrency)]
    /\ UNCHANGED <<pvars, fr, sp, hr, fb>>

CliNext ==
    \/ main_send
    \/ receive_total_blocks
    \/ main_receive
    \/ receive_split

CliSpec == CliInit /\ [][CliNext]_vars

\* C40: no division by zero is reachable from the command line.  The
\* concurrency main hands to receive_file is at least 1, the block size it
\* hands to send_file is at least 1 and at most MAX_BLOCK_SIZE, and neither
\* the division of split_blocks_into_ranges nor the div_ceil of receive_file
\* panics.
C40_NoDivisionByZero ==
    /\ cl.phase = "receive_file" => cl.concurrency >= 1
    /\ cl.phase = "send_file" => cl.block_size \in 1..MAX_BLOCK_SIZE
    /\ cl.phase # "panic"

=========================================================================
